---- MODULE Spec2Model ----
(***************************************************************************)
(* Model of the watermelon-api normalisation and ticker-resolution         *)
(* pipeline (utils.py, cache_manager.py, app.py).                          *)
(*                                                                         *)
(* Python strings whose characters matter (company names, search content,  *)
(* tickers, company ids, the Companies field) are sequences of             *)
(* one-character strings.  Python's None is the one-element sequence       *)
(* <<"None">>, which no character sequence equals.  Python dicts are       *)
(* functions whose domain is the set of keys that are present.             *)
(***************************************************************************)
EXTENDS Integers, Sequences, FiniteSets, TLC

\* ------------------------------------------------------------------ bounds
MaxLen == 3          \* longest search content enumerated exhaustively
MaxCompanies == 2    \* company records in a raw dataset
MaxCampaigns == 2    \* campaign records in a raw dataset
MaxCalls == 2        \* outbound search calls counted per name and process
MaxTicks == 2        \* clock advances in one behaviour

\* --------------------------------------------------------- Python values
None == <<"None">>

UpperSeq == <<"A","B","C","D","E","F","G","H","I","J","K","L","M",
              "N","O","P","Q","R","S","T","U","V","W","X","Y","Z">>
LowerSeq == <<"a","b","c","d","e","f","g","h","i","j","k","l","m",
              "n","o","p","q","r","s","t","u","v","w","x","y","z">>
UpperChars == {UpperSeq[i] : i \in 1..Len(UpperSeq)}
LowerChars == {LowerSeq[i] : i \in 1..Len(LowerSeq)}
DigitChars == {"0","1","2","3","4","5","6","7","8","9"}
WordChars == UpperChars \cup LowerChars \cup DigitChars \cup {"_"}
SpaceChars == {" ", "\n", "\t"}

\* F applied to the value of x, which is computed once
Let1(x, F(_)) == CHOOSE y \in {F(v) : v \in {x}} : TRUE

AllIn(s, cs) == \A i \in 1..Len(s) : s[i] \in cs

\* str.lower() / str.upper(), character by character
RECURSIVE lower(_)
lower(s) ==
    IF Len(s) = 0 THEN <<>>
    ELSE LET c == Head(s)
             d == IF c \in UpperChars
                  THEN LowerSeq[CHOOSE j \in 1..Len(UpperSeq) : UpperSeq[j] = c]
                  ELSE c
         IN  <<d>> \o lower(Tail(s))

RECURSIVE upper(_)
upper(s) ==
    IF Len(s) = 0 THEN <<>>
    ELSE LET c == Head(s)
             d == IF c \in LowerChars
                  THEN UpperSeq[CHOOSE j \in 1..Len(LowerSeq) : LowerSeq[j] = c]
                  ELSE c
         IN  <<d>> \o upper(Tail(s))

\* str.strip(chars): removes the characters of cs from both ends
RECURSIVE lstrip(_, _)
lstrip(s, cs) ==
    IF Len(s) > 0 /\ Head(s) \in cs THEN lstrip(Tail(s), cs) ELSE s

RECURSIVE rstrip(_, _)
rstrip(s, cs) ==
    IF Len(s) > 0 /\ s[Len(s)] \in cs
    THEN rstrip(SubSeq(s, 1, Len(s) - 1), cs) ELSE s

strip(s, cs) == rstrip(lstrip(s, cs), cs)

\* length of the longest prefix of s whose characters are all in cs
\* (inside = TRUE) or all outside cs (inside = FALSE)
RunLen(s, cs, inside) ==
    CHOOSE n \in 0..Len(s) :
        /\ \A i \in 1..n : (s[i] \in cs) = inside
        /\ (n = Len(s) \/ (s[n + 1] \in cs) # inside)

\* str.split(): the maximal runs of non-whitespace characters
RECURSIVE split_ws(_)
split_ws(s) ==
    LET t == lstrip(s, SpaceChars) IN
    IF Len(t) = 0 THEN <<>>
    ELSE LET n == RunLen(t, SpaceChars, FALSE)
         IN  <<SubSeq(t, 1, n)>> \o split_ws(SubSeq(t, n + 1, Len(t)))

\* str.split(sep): cuts at every sep, keeping empty pieces
RECURSIVE split_on(_, _)
split_on(s, sep) ==
    IF \A i \in 1..Len(s) : s[i] # sep THEN <<s>>
    ELSE LET p == CHOOSE i \in 1..Len(s) :
                      s[i] = sep /\ \A j \in 1..(i - 1) : s[j] # sep
         IN  <<SubSeq(s, 1, p - 1)>> \o split_on(SubSeq(s, p + 1, Len(s)), sep)

\* the content cut into maximal runs of \w characters and of other characters
RECURSIVE segments(_)
segments(s) ==
    IF Len(s) = 0 THEN <<>>
    ELSE LET n == RunLen(s, WordChars, Head(s) \in WordChars)
         IN  <<SubSeq(s, 1, n)>> \o segments(SubSeq(s, n + 1, Len(s)))

\* ------------------------------------------------------- is_valid_ticker
\* (\.[A-Z]{1,2}) without the dot
IsExchangeSuffix(w) == Len(w) \in 1..2 /\ AllIn(w, UpperChars)

\* [A-Z]{lo,hi}
Letters(w, lo, hi) == Len(w) \in lo..hi /\ AllIn(w, UpperChars)

\* [A-Z]{1,4}\d{1,2}
LettersDigits(w) ==
    \E d \in 1..2 :
        /\ Len(w) - d \in 1..4
        /\ AllIn(SubSeq(w, 1, Len(w) - d), UpperChars)
        /\ AllIn(SubSeq(w, Len(w) - d + 1, Len(w)), DigitChars)

\* the five patterns of is_valid_ticker, without the anchors
ValidBody(k, t) ==
    CASE k = 1 -> Letters(t, 1, 5)
      [] k = 2 -> Len(t) \in 5..6 /\ AllIn(t, UpperChars) /\ t[Len(t)] = "Y"
      [] k = 3 -> Len(t) \in 3..7 /\ AllIn(t, UpperChars) /\ t[Len(t)] = "F"
      [] k = 4 -> \/ Letters(t, 4, 6)
                  \/ \E p \in 1..Len(t) :
                        /\ t[p] = "."
                        /\ Letters(SubSeq(t, 1, p - 1), 4, 6)
                        /\ IsExchangeSuffix(SubSeq(t, p + 1, Len(t)))
      [] k = 5 -> \/ LettersDigits(t)
                  \/ \E p \in 1..Len(t) :
                        /\ t[p] = "."
                        /\ LettersDigits(SubSeq(t, 1, p - 1))
                        /\ IsExchangeSuffix(SubSeq(t, p + 1, Len(t)))

\* re.match('^...$', t): '$' also matches just before one trailing newline
re_match(k, t) ==
    \/ ValidBody(k, t)
    \/ Len(t) > 0 /\ t[Len(t)] = "\n" /\ ValidBody(k, SubSeq(t, 1, Len(t) - 1))

is_valid_ticker(ticker) ==
    IF ticker = None \/ Len(ticker) = 0 \/ Len(ticker) > 10 THEN FALSE
    ELSE \E k \in 1..5 : re_match(k, ticker)

\* ------------------------------------------ extraction in get_stock_ticker
\* the five ticker_patterns, as a test of one whole \w run
\* (\b on both sides makes every match start and end with a run)
PatternBody(k, w) ==
    CASE k = 1 -> Len(w) \in 5..7 /\ AllIn(w, UpperChars) /\ w[Len(w)] = "Y"
      [] k = 2 -> Len(w) \in 3..7 /\ AllIn(w, UpperChars) /\ w[Len(w)] = "F"
      [] k = 3 -> Letters(w, 4, 6)
      [] k = 4 -> LettersDigits(w)
      [] k = 5 -> Letters(w, 1, 5)

PatternHasSuffix(k) == k \in {3, 4}

\* re.findall(ticker_patterns[k], content)
RECURSIVE findall_from(_, _, _)
findall_from(k, segs, i) ==
    IF i > Len(segs) THEN <<>>
    ELSE IF Head(segs[i]) \in WordChars /\ PatternBody(k, segs[i])
         THEN LET withSuffix ==
                      /\ PatternHasSuffix(k)
                      /\ i + 2 <= Len(segs)
                      /\ segs[i + 1] = <<".">>
                      /\ IsExchangeSuffix(segs[i + 2])
                  m == IF withSuffix
                       THEN segs[i] \o <<".">> \o segs[i + 2]
                       ELSE segs[i]
              IN  <<m>> \o findall_from(k, segs, IF withSuffix THEN i + 3 ELSE i + 1)
         ELSE findall_from(k, segs, i + 1)

findall(k, content) == findall_from(k, segments(content), 1)

InSeq(x, s) == \E i \in 1..Len(s) : s[i] = x

\* the loop over ticker_patterns that fills all_matches
RECURSIVE Keep(_, _)
Keep(matches, company_words) ==
    IF Len(matches) = 0 THEN <<>>
    ELSE LET m == Head(matches)
         IN  (IF is_valid_ticker(m) /\ ~InSeq(m, company_words)
              THEN <<m>> ELSE <<>>) \o Keep(Tail(matches), company_words)

all_matches(company_name, content) ==
    LET company_words == split_ws(upper(company_name))
        found(k) == Keep(findall(k, content), company_words)
    IN  found(1) \o found(2) \o found(3) \o found(4) \o found(5)

\* max(all_matches, key=len): the first of the longest
max_by_len(ms) ==
    ms[CHOOSE i \in 1..Len(ms) :
           /\ \A j \in 1..Len(ms) : Len(ms[j]) <= Len(ms[i])
           /\ \A j \in 1..(i - 1) : Len(ms[j]) < Len(ms[i])]

NullLike == { <<"n","u","l","l">>, <<"n","o","n","e">>, <<"-">>, <<"n","/","a">> }


\* ---------------------------------------------------------- cache_manager
\* str(KeyError(key)): the message names the key
KeyError(key) == key

DataCacheDays == 1
TickerCacheDays == 365

\* one duration, the default of one day, for every cache type
CacheDuration_default(cache_type) == DataCacheDays

\* CACHE_DURATIONS.get(cache_type, timedelta(days=1)), in days
CacheDuration(cache_type) ==
    IF cache_type = "ticker" THEN TickerCacheDays ELSE DataCacheDays

\* A cache file: whether it exists, the form of its content ("envelope"
\* for {'timestamp': ..., 'data': ...}, "not_json" for text json.load
\* rejects, "no_timestamp" / "no_data" for a JSON object lacking that key),
\* what open(cache_file, 'w') and the write do ("ok", "denied": open
\* raises, "full": the file is truncated and the write raises), the
\* timestamp and the JSON payload.
\* a cache file that does not exist; d is the payload placeholder
NoFile(d) ==
    [exists |-> FALSE, form |-> "none", fault |-> "ok", timestamp |-> 0,
     data |-> d]

FileForms == {"envelope", "not_json", "no_timestamp", "no_data"}
FileFaults == {"ok", "denied", "full"}

\* JSON null, as json.dump writes None and json.load reads it back
JsonNull == <<"null">>

\* json.dump of the payloads the program saves: the ticker map, and
\* {'raw_data': ..., 'processed_data': [...]} whose only None values are
\* the stockTicker entries
json_dump(cache_type, data) ==
    IF cache_type = "ticker"
    THEN [n \in DOMAIN data |-> IF data[n] = None THEN JsonNull ELSE data[n]]
    ELSE [raw_data |-> data.raw_data,
          processed_data |->
              [i \in 1..Len(data.processed_data) |->
                  [k \in DOMAIN data.processed_data[i] |->
                      IF k = "stockTicker" /\ data.processed_data[i][k] = None
                      THEN JsonNull ELSE data.processed_data[i][k]]]]

\* json.load of such a payload
json_load(cache_type, obj) ==
    IF cache_type = "ticker"
    THEN [n \in DOMAIN obj |-> IF obj[n] = JsonNull THEN None ELSE obj[n]]
    ELSE [raw_data |-> obj.raw_data,
          processed_data |->
              [i \in 1..Len(obj.processed_data) |->
                  [k \in DOMAIN obj.processed_data[i] |->
                      IF k = "stockTicker" /\ obj.processed_data[i][k] = JsonNull
                      THEN None ELSE obj.processed_data[i][k]]]]

\* what a load_cache call gives: found = FALSE stands for the None
\* result, exc for an exception leaving the function ("" for none)
Loaded(found, data, exc) == [found |-> found, data |-> data, exc |-> exc]

\* lines 26-36: the try block of load_cache
load_cache_try(cache_type, file, t) ==
    IF file.form = "not_json"
    THEN Loaded(FALSE, file.data, "JSONDecodeError")
    ELSE IF file.form = "no_timestamp"
    THEN Loaded(FALSE, file.data, KeyError("timestamp"))
    ELSE IF t - file.timestamp > CacheDuration(cache_type)
    THEN Loaded(FALSE, file.data, "")
    ELSE IF file.form = "no_data"
    THEN Loaded(FALSE, file.data, KeyError("data"))
    ELSE Loaded(TRUE, json_load(cache_type, file.data), "")

\* load_cache with the expiry test now - cached_time >= cache_duration
load_cache_expires_at_duration(cache_type, file, t) ==
    IF ~file.exists THEN Loaded(FALSE, file.data, "")
    ELSE IF file.form = "envelope"
              /\ t - file.timestamp >= CacheDuration(cache_type)
         THEN Loaded(FALSE, file.data, "")
         ELSE LET r == load_cache_try(cache_type, file, t)
              IN  IF r.exc # "" THEN Loaded(FALSE, file.data, "") ELSE r

\* load_cache without its except clause
load_cache_uncaught(cache_type, file, t) ==
    IF ~file.exists THEN Loaded(FALSE, file.data, "")
    ELSE load_cache_try(cache_type, file, t)

\* load_cache
load_cache(cache_type, file, t) ==
    IF ~file.exists THEN Loaded(FALSE, file.data, "")
    ELSE LET r == load_cache_try(cache_type, file, t)
         IN  IF r.exc # "" THEN Loaded(FALSE, file.data, "") ELSE r

\* save_cache writing the timestamp only when it creates the file
save_cache_try_keeps_timestamp(data, cache_type, t, file) ==
    IF file.fault = "denied"
    THEN [file |-> file, exc |-> "PermissionError"]
    ELSE IF file.fault = "full"
    THEN [file |-> [file EXCEPT !.exists = TRUE, !.form = "not_json"],
          exc |-> "OSError"]
    ELSE [file |-> [exists |-> TRUE, form |-> "envelope", fault |-> "ok",
                    timestamp |-> IF file.exists THEN file.timestamp ELSE t,
                    data |-> json_dump(cache_type, data)],
          exc |-> ""]

\* lines 44-51: the try block of save_cache on the file as it is
save_cache_try(data, cache_type, t, file) ==
    IF file.fault = "denied"
    THEN [file |-> file, exc |-> "PermissionError"]
    ELSE IF file.fault = "full"
    THEN [file |-> [file EXCEPT !.exists = TRUE, !.form = "not_json"],
          exc |-> "OSError"]
    ELSE [file |-> [exists |-> TRUE, form |-> "envelope", fault |-> "ok",
                    timestamp |-> t, data |-> json_dump(cache_type, data)],
          exc |-> ""]

\* save_cache: the file afterwards; the except clause swallows exc
save_cache(data, cache_type, t, file) ==
    save_cache_try(data, cache_type, t, file).file

\* ------------------------------------------------------- get_stock_ticker
EmptyCache == [n \in {} |-> None]

\* ticker_cache[company_name] = value
CachePut(cache, company_name, value) ==
    [n \in (DOMAIN cache) \cup {company_name} |->
        IF n = company_name THEN value ELSE cache[n]]

\* what the provider does with one search request
FailureKinds == {"transport_error", "timeout", "http_error", "not_json"}
MalformedKinds == {"no_choices", "empty_choices"}

\* search_with_perplexity: None for every exception of the request,
\* the decoded JSON body otherwise
search_with_perplexity(outcome) ==
    IF outcome.kind \in FailureKinds
    THEN [isNone |-> TRUE, hasChoices |-> FALSE, choices |-> <<>>]
    ELSE IF outcome.kind = "no_choices"
         THEN [isNone |-> FALSE, hasChoices |-> FALSE, choices |-> <<>>]
         ELSE IF outcome.kind = "empty_choices"
              THEN [isNone |-> FALSE, hasChoices |-> TRUE, choices |-> <<>>]
              ELSE [isNone |-> FALSE, hasChoices |-> TRUE,
                    choices |-> <<outcome.content>>]

\* the result of one get_stock_ticker call: the value returned, the cache
\* and the cache file afterwards, the search calls and save_cache calls
\* made, and the exception that left the function ("" for none)
CallResult(ret, cache, file, searches, saves, exc) ==
    [ret |-> ret, cache |-> cache, file |-> file,
     searches |-> searches, saves |-> saves, exc |-> exc]

\* lines 116-139: the candidate chosen from the content; exc is set when
\* content.split()[0] has nothing to index
choose_ticker(company_name, content) ==
    Let1(all_matches(company_name, content),
         LAMBDA ms :
         IF Len(ms) > 0 THEN [ticker |-> max_by_len(ms), exc |-> ""]
         ELSE LET words == split_ws(content)
              IN  IF Len(words) = 0
                  THEN [ticker |-> None, exc |-> "IndexError"]
                  ELSE [ticker |-> words[1], exc |-> ""])

\* lines 141-152 with the validation left out
store_ticker_unchecked(company_name, ticker, cache, file, t) ==
    LET c == CachePut(cache, company_name, ticker)
    IN  CallResult(ticker, c, save_cache(c, "ticker", t, file), 1, 1, "")

\* lines 141-152 with the write to the cache file left for later
store_ticker_deferred(company_name, ticker, cache, file, t) ==
    IF ~is_valid_ticker(ticker)
    THEN CallResult(None, CachePut(cache, company_name, None), file, 1, 0, "")
    ELSE CallResult(ticker, CachePut(cache, company_name, ticker), file,
                    1, 0, "")

\* lines 141-152: validate, cache, persist, return
store_ticker(company_name, ticker, cache, file, t) ==
    IF ~is_valid_ticker(ticker)
    THEN LET c == CachePut(cache, company_name, None)
         IN  CallResult(None, c, save_cache(c, "ticker", t, file), 1, 1, "")
    ELSE LET c == CachePut(cache, company_name, ticker)
         IN  CallResult(ticker, c, save_cache(c, "ticker", t, file), 1, 1, "")

\* lines 91-152: the body of the try block on a cache miss
resolve_miss(company_name, cache, file, t, outcome) ==
    LET response == search_with_perplexity(outcome) IN
    IF response.isNone \/ ~response.hasChoices
    THEN CallResult(None, cache, file, 1, 0, "")
    ELSE IF Len(response.choices) = 0
         THEN CallResult(None, cache, file, 1, 0, "IndexError")
         ELSE Let1(strip(response.choices[1], SpaceChars),
                   LAMBDA content :
                   IF strip(lower(content), {"."}) \in NullLike
                   THEN LET c == CachePut(cache, company_name, None)
                        IN  CallResult(None, c,
                                       save_cache(c, "ticker", t, file),
                                       1, 1, "")
                   ELSE Let1(choose_ticker(company_name, content),
                             LAMBDA ch :
                             IF ch.exc # ""
                             THEN CallResult(None, cache, file, 1, 0, ch.exc)
                             ELSE store_ticker(company_name, ch.ticker,
                                               cache, file, t)))

\* lines 98-139: the functions a get_stock_ticker call hands text to, in
\* order: the search on line 98 and nothing else, the ticker being taken
\* from the answer by the regular expressions of lines 117-135
llm_calls(searches) == [i \in 1..searches |-> "search_with_perplexity"]

\* get_stock_ticker without its except clause
get_stock_ticker_uncaught(company_name, cache, file, t, outcome) ==
    IF company_name \in DOMAIN cache
    THEN CallResult(cache[company_name], cache, file, 0, 0, "")
    ELSE resolve_miss(company_name, cache, file, t, outcome)

\* get_stock_ticker that looks the name up only among the entries
\* holding a ticker
get_stock_ticker_truthy_hit(company_name, cache, file, t, outcome) ==
    IF company_name \in DOMAIN cache /\ cache[company_name] # None
    THEN CallResult(cache[company_name], cache, file, 0, 0, "")
    ELSE Let1(resolve_miss(company_name, cache, file, t, outcome),
              LAMBDA r :
              IF r.exc # "" THEN [r EXCEPT !.ret = None, !.exc = ""] ELSE r)

\* get_stock_ticker: the cache check, the try block, the except clause
get_stock_ticker(company_name, cache, file, t, outcome) ==
    IF company_name \in DOMAIN cache
    THEN CallResult(cache[company_name], cache, file, 0, 0, "")
    ELSE Let1(resolve_miss(company_name, cache, file, t, outcome),
              LAMBDA r :
              IF r.exc # "" THEN [r EXCEPT !.ret = None, !.exc = ""] ELSE r)


\* ------------------------------------------------------------------ state
VARIABLES
    ticker_cache,   \* utils.ticker_cache: company name -> ticker or None
    ticker_file,    \* ticker_cache.json: the envelope on disk
    data_file,      \* data_cache.json: the envelope on disk
    now,            \* datetime.now(), in days
    ticks,          \* clock advances so far
    calls,          \* search calls issued per company name by this process
    firstRet,       \* the first value this process returned for each name
    last,           \* the operation that ran last and what it gave
    inp,            \* the input drawn for a run of a pure function
    threads         \* the requests in flight: position and local variables

vars == <<ticker_cache, ticker_file, data_file, now, ticks, calls, firstRet,
          last, inp, threads>>

\* no request is in flight
NoThreads == <<>>

NotCalled == <<"NotCalled">>
NoInput == <<"NoInput">>
Idle == [op |-> "none"]

\* company names and search answers of the process-lifetime specification
SampleNames == { <<"A","F">>, <<"a","f">> }
SampleContents == { <<"A","F">>, <<"Y">>, <<"n","u","l","l">>, <<"1","a">>, <<>> }
Failed(kinds) == [kind : kinds, content : {<<>>}]
Answered(contents) == [kind : {"ok"}, content : contents]
SampleOutcomes ==
    Failed(FailureKinds \cup MalformedKinds) \cup Answered(SampleContents)

TickSteps == {1, TickerCacheDays}

\* the state of a freshly deployed process: no cache files, and
\* ticker_cache = load_cache('ticker') or {} gives the empty map
Init ==
    /\ ticker_file = NoFile(EmptyCache)
    /\ data_file = NoFile(<<>>)
    /\ ticker_cache = EmptyCache
    /\ now = 0
    /\ ticks = 0
    /\ calls = [n \in SampleNames |-> 0]
    /\ firstRet = [n \in SampleNames |-> NotCalled]
    /\ last = Idle
    /\ inp = NoInput
    /\ threads = NoThreads

\* what one get_stock_ticker call leaves in `last`
CallRecord(company_name, outcome, hit, r) ==
    [op |-> "get_stock_ticker", name |-> company_name, kind |-> outcome.kind,
     content |-> outcome.content, hit |-> hit, ret |-> r.ret, exc |-> r.exc,
     searches |-> r.searches, saves |-> r.saves]

\* one call get_stock_ticker(company_name); the provider answers `outcome`
\* when the call reaches it
Resolve(company_name, outcome) ==
    /\ company_name \in DOMAIN ticker_cache \/ calls[company_name] < MaxCalls
    /\ \E r \in {get_stock_ticker(company_name, ticker_cache, ticker_file,
                                   now, outcome)} :
           /\ ticker_cache' = r.cache
           /\ ticker_file' = r.file
           /\ calls' = [calls EXCEPT ![company_name] = @ + r.searches]
           /\ firstRet' = IF firstRet[company_name] = NotCalled
                          THEN [firstRet EXCEPT ![company_name] = r.ret]
                          ELSE firstRet
           /\ last' = CallRecord(company_name, outcome,
                                 company_name \in DOMAIN ticker_cache, r)
    /\ UNCHANGED <<data_file, now, ticks, inp, threads>>

\* time passes
Tick ==
    /\ ticks < MaxTicks
    /\ \E d \in TickSteps : now' = now + d
    /\ ticks' = ticks + 1
    /\ last' = [op |-> "tick"]
    /\ UNCHANGED <<ticker_cache, ticker_file, data_file, calls, firstRet, inp, threads>>

\* the process is started again: utils.py line 17 runs
\* ticker_cache = load_cache(TICKER_CACHE_KEY) or {}
Restart ==
    /\ \E l \in {load_cache("ticker", ticker_file, now)} :
           /\ ticker_cache' = IF l.found THEN l.data ELSE EmptyCache
           /\ last' = [op |-> "restart", found |-> l.found, exc |-> l.exc]
    /\ calls' = [n \in SampleNames |-> 0]
    /\ firstRet' = [n \in SampleNames |-> NotCalled]
    /\ UNCHANGED <<ticker_file, data_file, now, ticks, inp, threads>>

Next ==
    \/ \E n \in SampleNames, o \in SampleOutcomes : Resolve(n, o)
    \/ Tick
    \/ Restart

Spec == Init /\ [][Next]_vars

\* ------------------------------------------- the resolver on every answer
EnumChars == {"A", "F", "Y", "1", ".", " ", "a", "-"}

\* every string over EnumChars of at most n characters
RECURSIVE StringsUpTo(_)
StringsUpTo(n) ==
    IF n = 0 THEN {<<>>}
    ELSE LET shorter == StringsUpTo(n - 1)
         IN  shorter \cup {Append(s, c) : s \in shorter, c \in EnumChars}

LongContents == {
    <<"n","u","l","l">>, <<"N","o","n","e",".">>, <<"N","/","A">>, <<".","n","/","a",".",".">>,
    <<"A","A","A","A","Y">>, <<"A","A","A","A","A","A","Y">>, <<"A","A","A","A","A","A","A","Y">>, <<"A","F","A","F",".","A","F">>, <<"A","F","1",".","A">>,
    <<"A","A","A","A","A","A","A","A","A","A","A">>, <<"1","2","3","I","N","V","A","L","I","D">>, <<"A","A","P","L">>,
    <<"T","h","e"," ","t","i","c","k","e","r"," ","o","f"," ","A","B","B"," ","G","r","o","u","p"," ","i","s"," ","A","B","B","N","Y",".">>,
    <<"A","B","B"," ","o","r"," ","A","B","B","N","Y"," ","o","r"," ","A","B","B","N",".">>,
    <<"A","A","A","A","A","A","Y"," ","A","F","A","F">>, <<".","N","U","L","L">>, <<".","N","/","A">> }

Contents == StringsUpTo(MaxLen) \cup LongContents

TickerNames == { <<"A","F">>, <<"a","f">>, <<"Y","."," ","a">>, <<"A","B","B"," ","G","r","o","u","p">> }

TickerOutcomes ==
    Failed(FailureKinds \cup MalformedKinds) \cup Answered(Contents)

InitTicker ==
    /\ ticker_file = NoFile(EmptyCache)
    /\ data_file = NoFile(<<>>)
    /\ ticker_cache = EmptyCache
    /\ now = 0
    /\ ticks = 0
    /\ calls = [n \in TickerNames |-> 0]
    /\ firstRet = [n \in TickerNames |-> NotCalled]
    /\ last = Idle
    /\ inp \in [name : TickerNames, outcome : TickerOutcomes]
    /\ threads = NoThreads

\* get_stock_ticker(inp.name) on a cold cache, answered by inp.outcome
ResolveInput ==
    /\ last = Idle
    /\ \E r \in {get_stock_ticker(inp.name, ticker_cache, ticker_file, now,
                                   inp.outcome)} :
           /\ ticker_cache' = r.cache
           /\ ticker_file' = r.file
           /\ calls' = [calls EXCEPT ![inp.name] = @ + r.searches]
           /\ firstRet' = [firstRet EXCEPT ![inp.name] = r.ret]
           /\ last' = CallRecord(inp.name, inp.outcome, FALSE, r)
    /\ UNCHANGED <<data_file, now, ticks, inp, threads>>

NextTicker == ResolveInput

SpecTicker == InitTicker /\ [][NextTicker]_vars


\* ------------------------------------------------ the validator on strings
ValidatorChars == {"A", "F", "Y", "1", ".", "a", "-", " ", "\n"}

\* every string over cs of at most n characters
RECURSIVE StringsOver(_, _)
StringsOver(cs, n) ==
    IF n = 0 THEN {<<>>}
    ELSE LET shorter == StringsOver(cs, n - 1)
         IN  shorter \cup {Append(x, c) : x \in shorter, c \in cs}

\* the tickers of the validator tests, and longer shapes
LongTickers == {
    <<"A","A","P","L">>,
    <<"G","O","O","G","L">>,
    <<"A","B","B","N","Y">>,
    <<"A","D","D","Y","Y">>,
    <<"E","A","D","S","Y">>,
    <<"B","A","E","S","Y">>,
    <<"A">>,
    <<"A","B","C","D","E">>,
    <<"1","2","3","A","B","C">>,
    <<"A","B","C","D","E","F","G","H","I","J","K">>,
    <<"a","b","c">>,
    <<"A","B","-","C","D">>,
    <<"A","B"," ","C","D">>,
    <<"A","A","P","L","\n">>,
    <<"A","B","C","D","E","F",".","A","B">>,
    <<"A","B","C","D","1","2",".","A","B">>,
    <<"A","B","C","D","E","F","F">>,
    <<"A","B","C","D","E","F","Y">> }

ValidatorInputs ==
    {None} \cup StringsOver(ValidatorChars, MaxLen) \cup LongTickers

InitValid ==
    /\ ticker_file = NoFile(EmptyCache)
    /\ data_file = NoFile(<<>>)
    /\ ticker_cache = EmptyCache
    /\ now = 0
    /\ ticks = 0
    /\ calls = [n \in SampleNames |-> 0]
    /\ firstRet = [n \in SampleNames |-> NotCalled]
    /\ last = Idle
    /\ inp \in ValidatorInputs
    /\ threads = NoThreads

\* one call is_valid_ticker(inp)
Validate ==
    /\ last = Idle
    /\ last' = [op |-> "is_valid_ticker", ret |-> is_valid_ticker(inp)]
    /\ UNCHANGED <<ticker_cache, ticker_file, data_file, now, ticks, calls,
                   firstRet, inp, threads>>

NextValid == Validate

SpecValid == InitValid /\ [][NextValid]_vars


\* ------------------------------------------------ flatten_and_standardize
\* a Python list, kept apart from the string of the same elements
PyList(items) == [items |-> items]

EmptyDict == [k \in {} |-> <<>>]

\* d.get(key, '')
GetOrEmpty(d, key) == IF key \in DOMAIN d THEN d[key] ELSE <<>>

SourceFields ==
    <<"Source", "Second source", "Information source 3", "Information source 4">>

\* lines 167-172 without the test of the value: the value of every field,
\* '' for an absent one
RECURSIVE sources_from_keeping_empty(_, _)
sources_from_keeping_empty(cd, i) ==
    IF i > Len(SourceFields) THEN <<>>
    ELSE <<GetOrEmpty(cd, SourceFields[i])>>
         \o sources_from_keeping_empty(cd, i + 1)

\* lines 167-172: the non-empty source values, in the order of SourceFields
RECURSIVE sources_from(_, _)
sources_from(cd, i) ==
    IF i > Len(SourceFields) THEN <<>>
    ELSE LET value == GetOrEmpty(cd, SourceFields[i])
         IN  (IF Len(value) > 0 THEN <<value>> ELSE <<>>)
             \o sources_from(cd, i + 1)

RequiredFields ==
    <<"Company Name", "Company name", "Sector", "Complicity details",
      "Record last updated">>

\* the first key whose lookup in lines 175-179 raises KeyError, "" if none
missing_field(cd) ==
    IF \E i \in 1..Len(RequiredFields) : RequiredFields[i] \notin DOMAIN cd
    THEN RequiredFields[CHOOSE i \in 1..Len(RequiredFields) :
             /\ RequiredFields[i] \notin DOMAIN cd
             /\ \A j \in 1..(i - 1) : RequiredFields[j] \in DOMAIN cd]
    ELSE IF "repr" \notin DOMAIN cd["Record last updated"] THEN "repr"
         ELSE ""

Categories ==
    {"Military", "Settlement production", "Population control",
     "Economic exploitation", "Cultural"}

\* category.lower().replace(' ', '_')
category_key(category) ==
    CASE category = "Military" -> "military"
      [] category = "Settlement production" -> "settlement_production"
      [] category = "Population control" -> "population_control"
      [] category = "Economic exploitation" -> "economic_exploitation"
      [] category = "Cultural" -> "cultural"

\* lines 174-186: the output record of one company
build_company(cd, ticker) ==
    LET base ==
            ("companyName" :> cd["Company Name"])
         @@ ("companyId" :> cd["Company name"])
         @@ ("sector" :> cd["Sector"])
         @@ ("complicityDetails" :> cd["Complicity details"])
         @@ ("recordLastUpdated" :> cd["Record last updated"]["repr"])
         @@ ("sources" :> PyList(sources_from(cd, 1)))
         @@ ("stockTicker" :> ticker)
        present == {c \in Categories : c \in DOMAIN cd}
    IN  [k \in (DOMAIN base) \cup {category_key(c) : c \in present} |->
            IF k \in DOMAIN base THEN base[k]
            ELSE cd[CHOOSE c \in present : category_key(c) = k]]


\* lines 165-187: the loop over data['Sheet1'] from record i on.  st holds
\* the companies built so far, the ticker cache and its file, the
\* get_stock_ticker calls made (answer: the content the provider had for
\* the call, None when it had none), and the exception that ended the loop
RECURSIVE pass1(_, _, _, _, _)
pass1(sheet, i, st, t, outcomes) ==
    IF i > Len(sheet) THEN st
    ELSE LET cd == sheet[i].data
             missing == missing_field(cd)
         IN  IF missing # "" THEN [st EXCEPT !.exc = KeyError(missing)]
             ELSE Let1(get_stock_ticker(cd["Company Name"], st.cache,
                                        st.file, t, outcomes[i]),
                  LAMBDA r :
                  LET call == [name |-> cd["Company Name"],
                               answer |-> IF outcomes[i].kind = "ok"
                                          THEN outcomes[i].content ELSE None,
                               hit |-> cd["Company Name"] \in DOMAIN st.cache,
                               ret |-> r.ret, exc |-> r.exc,
                               searches |-> r.searches, saves |-> r.saves]
                  IN  IF r.exc # ""
                      THEN [st EXCEPT !.cache = r.cache, !.file = r.file,
                                      !.log = Append(@, call), !.exc = r.exc]
                      ELSE pass1(sheet, i + 1,
                                 [st EXCEPT !.cache = r.cache, !.file = r.file,
                                      !.log = Append(@, call),
                                      !.companies =
                                          Append(@, build_company(cd, r.ret))],
                                 t, outcomes))

CampaignKeys ==
    {"campaignName", "campaignId", "campaignDescription", "campaignLocation",
     "campaignOutcomes", "campaignAimsAchieved", "campaignGroups",
     "campaignMethods", "campaignLinks", "targetAim"}

MethodsField == "9f119b48c6e3251dc6be2ae8a8b969c4"
TargetAimField ==
    "Target aim: Divestment,Contract,Sponsor,Supply,Operations,Position,Other"

\* the output key of each campaign sub-field read with .get(field, '')
UpstreamField ==
       ("campaignName" :> "Campaign Name")
    @@ ("campaignDescription" :> "Description")
    @@ ("campaignLocation" :> "Location")
    @@ ("campaignOutcomes" :> "Outcomes")
    @@ ("campaignAimsAchieved" :> "Aims achieved")
    @@ ("campaignGroups" :> "Campaign Groups")
    @@ ("campaignMethods" :> MethodsField)
    @@ ("targetAim" :> TargetAimField)

\* campaign_fields that writes only the keys whose sub-field the campaign
\* has
campaign_fields_present_only(campaign_data) ==
    LET campaign_info == campaign_data.data
        keys == {k \in DOMAIN UpstreamField :
                     UpstreamField[k] \in DOMAIN campaign_info}
    IN  [k \in keys \cup {"campaignId"} |->
            IF k = "campaignId" THEN campaign_data.id
            ELSE campaign_info[UpstreamField[k]]]

\* lines 197-208: the ten campaign values written to a matching company
campaign_fields(campaign_data) ==
    LET campaign_info == campaign_data.data
        link == IF "Campaign link" \in DOMAIN campaign_info
                THEN campaign_info["Campaign link"] ELSE EmptyDict
        campaign_links == IF "$arrayItems" \in DOMAIN link
                          THEN link["$arrayItems"] ELSE <<>>
    IN     ("campaignName" :> GetOrEmpty(campaign_info, "Campaign Name"))
        @@ ("campaignId" :> campaign_data.id)
        @@ ("campaignDescription" :> GetOrEmpty(campaign_info, "Description"))
        @@ ("campaignLocation" :> GetOrEmpty(campaign_info, "Location"))
        @@ ("campaignOutcomes" :> GetOrEmpty(campaign_info, "Outcomes"))
        @@ ("campaignAimsAchieved" :> GetOrEmpty(campaign_info, "Aims achieved"))
        @@ ("campaignGroups" :> GetOrEmpty(campaign_info, "Campaign Groups"))
        @@ ("campaignMethods" :> GetOrEmpty(campaign_info, MethodsField))
        @@ ("campaignLinks" :>
                PyList(SelectSeq(campaign_links, LAMBDA item : Len(item) > 0)))
        @@ ("targetAim" :> GetOrEmpty(campaign_info, TargetAimField))

\* merge_campaign that writes a campaign key only where the company has
\* none yet (company.setdefault(key, value))
merge_campaign_setdefault(company, campaign_data) ==
    LET fields == campaign_fields(campaign_data)
    IN  [k \in (DOMAIN company) \cup (DOMAIN fields) |->
            IF k \in DOMAIN company THEN company[k] ELSE fields[k]]

\* company[key] = value for every campaign key
merge_campaign(company, campaign_data) ==
    LET fields == campaign_fields(campaign_data)
    IN  [k \in (DOMAIN company) \cup (DOMAIN fields) |->
            IF k \in DOMAIN fields THEN fields[k] ELSE company[k]]

\* lines 196-209 without the break: every record with the id is updated
apply_token_every_match(companies, campaign_data, company_id) ==
    [i \in 1..Len(companies) |->
        IF companies[i]["companyId"] = company_id
        THEN merge_campaign(companies[i], campaign_data)
        ELSE companies[i]]

\* lines 195-209: the scan for one company_id, stopping at the first match
apply_token(companies, campaign_data, company_id) ==
    LET hits == {i \in 1..Len(companies) :
                     companies[i]["companyId"] = company_id}
    IN  IF hits = {} THEN companies
        ELSE LET first == CHOOSE i \in hits : \A j \in hits : i <= j
             IN  [companies EXCEPT
                      ![first] = merge_campaign(@, campaign_data)]

\* the loop over company_ids leaving after its first token
apply_tokens_first_only(companies, campaign_data, company_ids) ==
    IF Len(company_ids) = 0 THEN companies
    ELSE apply_token(companies, campaign_data, Head(company_ids))

\* lines 192-209: the loop over the tokens of one campaign
RECURSIVE apply_tokens(_, _, _)
apply_tokens(companies, campaign_data, company_ids) ==
    IF Len(company_ids) = 0 THEN companies
    ELSE apply_tokens(apply_token(companies, campaign_data, Head(company_ids)),
                      campaign_data, Tail(company_ids))

\* [x.strip() for x in ...split(',')]
RECURSIVE strip_each(_)
strip_each(pieces) ==
    IF Len(pieces) = 0 THEN <<>>
    ELSE <<strip(Head(pieces), SpaceChars)>> \o strip_each(Tail(pieces))

company_ids_of(companies_field) == strip_each(split_on(companies_field, ","))

\* lines 191-209: the loop over data['Campaigns']
RECURSIVE pass2(_, _)
pass2(companies, campaigns) ==
    IF Len(campaigns) = 0 THEN [exc |-> "", companies |-> companies]
    ELSE LET campaign_data == Head(campaigns) IN
         IF "Companies" \notin DOMAIN campaign_data.data
         THEN [exc |-> KeyError("Companies"), companies |-> companies]
         ELSE pass2(apply_tokens(companies, campaign_data,
                        company_ids_of(campaign_data.data["Companies"])),
                    Tail(campaigns))

\* flatten_and_standardize(data): exc = "" and the list returned, or the
\* exception raised; with the ticker cache, its file and the resolver calls
flatten_and_standardize(data, cache, file, t, outcomes) ==
    Let1(pass1(data.Sheet1, 1,
               [companies |-> <<>>, cache |-> cache, file |-> file,
                log |-> <<>>, exc |-> ""], t, outcomes),
         LAMBDA p1 :
         IF p1.exc # "" THEN [p1 EXCEPT !.companies = <<>>]
         ELSE Let1(pass2(p1.companies, data.Campaigns),
                   LAMBDA p2 :
                   IF p2.exc # ""
                   THEN [p1 EXCEPT !.companies = <<>>, !.exc = p2.exc]
                   ELSE [p1 EXCEPT !.companies = p2.companies]))


\* ------------------------------------------- the normaliser on raw datasets
SeqsUpTo(S, n) == UNION {[1..k -> S] : k \in 0..n}

Without(d, key) == [k \in (DOMAIN d) \ {key} |-> d[k]]

\* a company record with the five required fields
Company(name, id) ==
    [data |-> ("Company Name" :> name)
           @@ ("Company name" :> id)
           @@ ("Sector" :> <<"Technology">>)
           @@ ("Complicity details" :> <<"details">>)
           @@ ("Record last updated" :> ("repr" :> <<"2023-01-01">>))]

CompanyRecords ==
    { [data |-> Company(<<"A","F">>, <<"a">>).data
                @@ ("Source" :> <<"Source 1">>)
                @@ ("Second source" :> <<>>)
                @@ ("Information source 4" :> <<"Source 4">>)
                @@ ("Military" :> <<"Yes">>)],
      Company(<<"a","f">>, <<"a">>),
      [data |-> Company(<<"a","f">>, <<"b">>).data
                @@ ("Information source 4" :> <<"Source D">>)
                @@ ("Source" :> <<"Source C">>)
                @@ ("Information source 3" :> <<"Source A">>)
                @@ ("Second source" :> <<"Source B">>)],
      Company(<<"A","F">>, <<>>),
      [data |-> Without(Company(<<"A","F">>, <<"b">>).data, "Sector")] }

\* campaign data with every field, and with almost none
InfoFull ==
       ("Campaign Name" :> <<"Full Campaign">>)
    @@ ("Description" :> <<"description">>)
    @@ ("Location" :> <<"location">>)
    @@ ("Outcomes" :> <<"outcomes">>)
    @@ ("Aims achieved" :> <<"aims">>)
    @@ ("Campaign Groups" :> <<"groups">>)
    @@ (MethodsField :> <<"methods">>)
    @@ ("Campaign link" :> ("$arrayItems" :> << <<"link 1">>, <<>>, <<"link 2">> >>))
    @@ (TargetAimField :> <<"Divestment">>)

InfoSparse ==
       ("Campaign Name" :> <<"Sparse Campaign">>)
    @@ ("Campaign link" :> EmptyDict)

Campaign(id, info, companies_field) ==
    [id |-> id, data |-> info @@ ("Companies" :> companies_field)]

CampaignRecords ==
    { Campaign(<<"campaign-1">>, InfoFull, <<"a">>),
      Campaign(<<"campaign-2">>, InfoSparse, <<"a">>),
      Campaign(<<"campaign-3">>, InfoFull, <<" ","a"," ",","," ","b",",","c">>),
      Campaign(<<"campaign-4">>, InfoSparse, <<>>),
      Campaign(<<"campaign-5">>, InfoFull, <<" ">>),
      [id |-> <<"campaign-6">>, data |-> InfoSparse] }

RawDatasets ==
    [Sheet1 : SeqsUpTo(CompanyRecords, MaxCompanies),
     Campaigns : SeqsUpTo(CampaignRecords, MaxCampaigns)]

NormOutcomes == Failed({"timeout"}) \cup Answered({<<"A","F">>})

\* search calls and first returned value per name, from a call log
RECURSIVE SearchesFor(_, _)
SearchesFor(log, n) ==
    IF Len(log) = 0 THEN 0
    ELSE (IF Head(log).name = n THEN Head(log).searches ELSE 0)
         + SearchesFor(Tail(log), n)

FirstRetFor(log, n, before) ==
    IF before # NotCalled \/ \A i \in 1..Len(log) : log[i].name # n THEN before
    ELSE log[CHOOSE i \in 1..Len(log) :
                 log[i].name = n /\ \A j \in 1..(i - 1) : log[j].name # n].ret

InitNorm ==
    /\ ticker_file = NoFile(EmptyCache)
    /\ data_file = NoFile(<<>>)
    /\ ticker_cache = EmptyCache
    /\ now = 0
    /\ ticks = 0
    /\ calls = [n \in SampleNames |-> 0]
    /\ firstRet = [n \in SampleNames |-> NotCalled]
    /\ last = Idle
    /\ inp \in RawDatasets
    /\ threads = NoThreads

\* one call flatten_and_standardize(inp); outcomes[i] is the provider's
\* answer if the resolution of company i reaches the provider
Normalize ==
    /\ last = Idle
    /\ \E outcomes \in [1..Len(inp.Sheet1) -> NormOutcomes] :
         \E r \in {flatten_and_standardize(inp, ticker_cache, ticker_file,
                                          now, outcomes)} :
             /\ ticker_cache' = r.cache
             /\ ticker_file' = r.file
             /\ calls' = [n \in SampleNames |->
                              calls[n] + SearchesFor(r.log, n)]
             /\ firstRet' = [n \in SampleNames |->
                                 FirstRetFor(r.log, n, firstRet[n])]
             /\ last' = [op |-> "flatten_and_standardize", exc |-> r.exc,
                         companies |-> r.companies, log |-> r.log]
    /\ UNCHANGED <<data_file, now, ticks, inp, threads>>

NextNorm == Normalize

SpecNorm == InitNorm /\ [][NextNorm]_vars


\* ------------------------------------------------------------- the pipeline
\* the raw datasets the upstream serves in the request specification
ApiDatasets ==
    << [Sheet1 |-> <<Company(<<"A","F">>, <<"a">>)>>,
        Campaigns |-> <<Campaign(<<"campaign-1">>, InfoFull, <<"a">>)>>],
       [Sheet1 |-> <<Company(<<"A","F">>, <<"a">>), Company(<<"a","f">>, <<"b">>)>>,
        Campaigns |-> <<Campaign(<<"campaign-3">>, InfoFull, <<" ","a"," ",","," ","b",",","c">>)>>],
       [Sheet1 |-> <<[data |-> Without(Company(<<"A","F">>, <<"b">>).data, "Sector")]>>,
        Campaigns |-> <<>>],
       [Sheet1 |-> <<Company(<<"A","F">>, <<"a">>)>>,
        Campaigns |-> <<[id |-> <<"campaign-6">>, data |-> InfoSparse]>>],
       [Sheet1 |-> <<[data |-> Without(Company(<<"A","F">>, <<"b">>).data, "Company Name")]>>,
        Campaigns |-> <<>>],
       [Sheet1 |-> <<[data |-> Without(Company(<<"A","F">>, <<"b">>).data, "Company name")]>>,
        Campaigns |-> <<>>],
       [Sheet1 |-> <<[data |-> Without(Company(<<"A","F">>, <<"b">>).data, "Complicity details")]>>,
        Campaigns |-> <<>>],
       [Sheet1 |-> <<[data |-> ("Record last updated" :> EmptyDict)
                               @@ Company(<<"A","F">>, <<"b">>).data]>>,
        Campaigns |-> <<>>] >>

\* what the upstream does with one fetch_raw_data call: a failure, a
\* snapshot without the 'data' key (snapshot 0), or snapshot k
FetchFailures ==
    {"RequestException", "dataSnapshot URL not found in response",
     "binascii.Error", "JSONDecodeError"}

\* json.loads(base64.b64decode(...)) of snapshot k
decode_snapshot(k) ==
    IF k = 0 THEN EmptyDict ELSE ("data" :> ApiDatasets[k])

\* fetch_raw_data: the exception raised, or the decoded JSON
fetch_raw_data(upstream) ==
    IF upstream.kind \in FetchFailures
    THEN [exc |-> upstream.kind, decoded_json |-> EmptyDict]
    ELSE [exc |-> "", decoded_json |-> decode_snapshot(upstream.snapshot)]

\* the result of one fetch_and_decode_data call: the exception raised
\* ("" for none), the value returned, the files and the ticker cache
\* afterwards, the collaborators called in order, the resolver calls
RunResult(exc, processed_data, cache, tfile, dfile, events, log) ==
    [exc |-> exc, processed_data |-> processed_data, cache |-> cache,
     ticker_file |-> tfile, data_file |-> dfile, events |-> events, log |-> log]

\* fetch_and_process over a normaliser that drops the record it cannot
\* build: the companies built so far are saved and returned
fetch_and_process_skipping(cache, tfile, dfile, t, upstream, outcomes) ==
    LET f == fetch_raw_data(upstream) IN
    IF f.exc # ""
    THEN RunResult(f.exc, <<>>, cache, tfile, dfile,
                   <<"load_cache", "fetch_raw_data">>, <<>>)
    ELSE IF "data" \notin DOMAIN f.decoded_json
    THEN RunResult(KeyError("data"), <<>>, cache, tfile, dfile,
                   <<"load_cache", "fetch_raw_data">>, <<>>)
    ELSE Let1(flatten_and_standardize(f.decoded_json["data"], cache, tfile,
                                      t, outcomes),
              LAMBDA n :
              RunResult("", n.companies, n.cache, n.file,
                        save_cache([raw_data |-> f.decoded_json,
                                    processed_data |-> n.companies], "data", t,
                                   dfile),
                        <<"load_cache", "fetch_raw_data",
                          "flatten_and_standardize", "save_cache">>, n.log))

\* lines 245-264: the try block of fetch_and_decode_data on a cache miss
fetch_and_process(cache, tfile, dfile, t, upstream, outcomes) ==
    LET f == fetch_raw_data(upstream) IN
    IF f.exc # ""
    THEN RunResult(f.exc, <<>>, cache, tfile, dfile,
                   <<"load_cache", "fetch_raw_data">>, <<>>)
    ELSE IF "data" \notin DOMAIN f.decoded_json
    THEN RunResult(KeyError("data"), <<>>, cache, tfile, dfile,
                   <<"load_cache", "fetch_raw_data">>, <<>>)
    ELSE Let1(flatten_and_standardize(f.decoded_json["data"], cache, tfile,
                                      t, outcomes),
              LAMBDA n :
              IF n.exc # ""
              THEN RunResult(n.exc, <<>>, n.cache, n.file, dfile,
                       <<"load_cache", "fetch_raw_data",
                         "flatten_and_standardize">>, n.log)
              ELSE RunResult("", n.companies, n.cache, n.file,
                       save_cache([raw_data |-> f.decoded_json,
                                   processed_data |-> n.companies], "data", t,
                                  dfile),
                       <<"load_cache", "fetch_raw_data",
                         "flatten_and_standardize", "save_cache">>, n.log))

\* fetch_and_decode_data that never consults the main cache
fetch_and_decode_data_uncached(cache, tfile, dfile, t, upstream, outcomes) ==
    fetch_and_process(cache, tfile, dfile, t, upstream, outcomes)

\* fetch_and_decode_data
fetch_and_decode_data(cache, tfile, dfile, t, upstream, outcomes) ==
    LET cached == load_cache("data", dfile, t) IN
    IF cached.exc # ""
    THEN RunResult(cached.exc, <<>>, cache, tfile, dfile, <<"load_cache">>, <<>>)
    ELSE IF cached.found /\ "processed_data" \in DOMAIN cached.data
    THEN RunResult("", cached.data.processed_data, cache, tfile, dfile,
                   <<"load_cache">>, <<>>)
    ELSE fetch_and_process(cache, tfile, dfile, t, upstream, outcomes)

\* get_data that answers 200 with whatever list the run has built
get_data_always_ok(run) ==
    [status |-> 200, body |-> run.processed_data, error |-> run.exc]

\* get_data: the HTTP response for one run
get_data(run) ==
    IF run.exc = "" THEN [status |-> 200, body |-> run.processed_data,
                          error |-> ""]
    ELSE [status |-> 500, body |-> <<>>, error |-> run.exc]

Upstreams ==
    [kind : FetchFailures, snapshot : {0}]
    \cup [kind : {"ok"}, snapshot : 0..Len(ApiDatasets)]

ApiOutcomes ==
    Failed(FailureKinds \cup MalformedKinds) \cup Answered({<<>>, <<"A","F">>})

\* one GET /api: get_data runs fetch_and_decode_data; `upstream` is what
\* the snapshot provider does if the run reaches it, outcomes[i] what the
\* search provider answers if the resolution of company i reaches it
GetData(upstream, outcomes) ==
    /\ \E run \in {fetch_and_decode_data(ticker_cache, ticker_file, data_file,
                                         now, upstream, outcomes)} :
           /\ \A n \in SampleNames :
                  calls[n] + SearchesFor(run.log, n) <= MaxCalls
           /\ ticker_cache' = run.cache
           /\ ticker_file' = run.ticker_file
           /\ data_file' = run.data_file
           /\ calls' = [n \in SampleNames |->
                            calls[n] + SearchesFor(run.log, n)]
           /\ firstRet' = [n \in SampleNames |->
                               FirstRetFor(run.log, n, firstRet[n])]
           /\ last' = [op |-> "get_data", upstream |-> upstream,
                       response |-> get_data(run), events |-> run.events,
                       log |-> run.log]
    /\ UNCHANGED <<now, ticks, inp, threads>>

\* one answer for each company record the upstream serves
OutcomesFor(upstream) ==
    IF upstream.snapshot # 0
    THEN [1..Len(ApiDatasets[upstream.snapshot].Sheet1) -> ApiOutcomes]
    ELSE {<<>>}

NextApi ==
    \/ \E u \in Upstreams : \E os \in OutcomesFor(u) : GetData(u, os)
    \/ Tick

SpecApi == Init /\ [][NextApi]_vars


\* ------------------------------------------------- the caches on their own
\* the payloads handed to save_cache: ticker maps, and the result of a
\* pipeline run on the first snapshot without and with a ticker
TickerPayloads ==
    { EmptyCache, (<<"A","F">> :> None), (<<"A","F">> :> <<"A","F">>) }

DataPayload(outcome) ==
    [raw_data |-> decode_snapshot(1),
     processed_data |->
         flatten_and_standardize(ApiDatasets[1], EmptyCache,
                                 NoFile(EmptyCache), 0, <<outcome>>).companies]

DataPayloads ==
    { DataPayload(o) : o \in Failed({"timeout"}) \cup Answered({<<"A","F">>}) }

Payloads(cache_type) ==
    IF cache_type = "ticker" THEN TickerPayloads ELSE DataPayloads

CacheTypes == {"data", "ticker"}

\* the file of a named cache
FileOf(cache_type) == IF cache_type = "ticker" THEN ticker_file ELSE data_file

\* inp holds, per cache, the payload of the last save that wrote it
InitCache ==
    /\ ticker_file = NoFile(EmptyCache)
    /\ data_file = NoFile(<<>>)
    /\ ticker_cache = EmptyCache
    /\ now = 0
    /\ ticks = 0
    /\ calls = [n \in SampleNames |-> 0]
    /\ firstRet = [n \in SampleNames |-> NotCalled]
    /\ last = Idle
    /\ inp = [c \in CacheTypes |-> NoInput]
    /\ threads = NoThreads

\* one call save_cache(data, cache_type)
Save(cache_type, data) ==
    /\ \E r \in {save_cache_try(data, cache_type, now, FileOf(cache_type))} :
           /\ IF cache_type = "ticker"
              THEN ticker_file' = r.file /\ UNCHANGED data_file
              ELSE data_file' = r.file /\ UNCHANGED ticker_file
           /\ inp' = IF r.exc = "" THEN [inp EXCEPT ![cache_type] = data]
                     ELSE inp
           /\ last' = [op |-> "save_cache", cache_type |-> cache_type,
                       failed |-> r.exc # ""]
    /\ UNCHANGED <<ticker_cache, now, ticks, calls, firstRet, threads>>

\* one call load_cache(cache_type)
Load(cache_type) ==
    /\ \E l \in {load_cache(cache_type, FileOf(cache_type), now)} :
           last' = [op |-> "load_cache", cache_type |-> cache_type,
                    found |-> l.found,
                    data |-> IF l.found THEN l.data ELSE None,
                    exc |-> l.exc,
                    stored |-> FileOf(cache_type).exists
                               /\ FileOf(cache_type).form = "envelope",
                    age |-> now - FileOf(cache_type).timestamp]
    /\ UNCHANGED <<ticker_cache, ticker_file, data_file, now, ticks, calls,
                   firstRet, inp, threads>>

\* the content of an existing cache file is damaged from outside
Damage(cache_type, form) ==
    /\ FileOf(cache_type).exists
    /\ FileOf(cache_type).form = "envelope"
    /\ IF cache_type = "ticker"
       THEN ticker_file' = [ticker_file EXCEPT !.form = form]
            /\ UNCHANGED data_file
       ELSE data_file' = [data_file EXCEPT !.form = form]
            /\ UNCHANGED ticker_file
    /\ last' = [op |-> "damage"]
    /\ UNCHANGED <<ticker_cache, now, ticks, calls, firstRet, inp, threads>>

\* the storage of a cache file starts or stops refusing writes
SetFault(cache_type, fault) ==
    /\ FileOf(cache_type).fault # fault
    /\ IF cache_type = "ticker"
       THEN ticker_file' = [ticker_file EXCEPT !.fault = fault]
            /\ UNCHANGED data_file
       ELSE data_file' = [data_file EXCEPT !.fault = fault]
            /\ UNCHANGED ticker_file
    /\ last' = [op |-> "fault"]
    /\ UNCHANGED <<ticker_cache, now, ticks, calls, firstRet, inp, threads>>

NextCache ==
    \/ \E c \in CacheTypes : \E d \in Payloads(c) : Save(c, d)
    \/ \E c \in CacheTypes : Load(c)
    \/ \E c \in CacheTypes : \E f \in FileForms \ {"envelope"} : Damage(c, f)
    \/ \E c \in CacheTypes : \E f \in FileFaults : SetFault(c, f)
    \/ Tick

SpecCache == InitCache /\ [][NextCache]_vars


\* ----------------------------------------- the callers on damaged storage
FaultOutcomes == Failed({"timeout"}) \cup Answered({<<"A","F">>})
FaultUpstream == [kind |-> "ok", snapshot |-> 1]

\* the directory holding both cache files starts or stops refusing writes
SetFaults(fault) ==
    /\ ticker_file.fault # fault
    /\ ticker_file' = [ticker_file EXCEPT !.fault = fault]
    /\ data_file' = [data_file EXCEPT !.fault = fault]
    /\ last' = [op |-> "fault"]
    /\ UNCHANGED <<ticker_cache, now, ticks, calls, firstRet, inp, threads>>

\* resolver calls, requests and process starts while the cache files are
\* damaged from outside and their storage refuses writes
NextFaults ==
    \/ \E o \in FaultOutcomes : Resolve(<<"A","F">>, o)
    \/ \E os \in [1..1 -> FaultOutcomes] : GetData(FaultUpstream, os)
    \/ Restart
    \/ \E c \in CacheTypes : \E f \in FileForms \ {"envelope"} : Damage(c, f)
    \/ \E f \in FileFaults : SetFaults(f)
    \/ Tick

SpecFaults == Init /\ [][NextFaults]_vars


\* ------------------------------------------------- requests in parallel
\* GET /api served by several threads of one process.  Each thread runs
\* get_data -> fetch_and_decode_data -> flatten_and_standardize ->
\* get_stock_ticker -> save_cache; a step of a thread is one access to
\* what the threads share: the ticker_cache dict and the two cache files.
MaxRequests == 2
Requests == 1..MaxRequests

\* what the upstream serves to every request: two well-formed company
\* records and a campaign listing both
ConcData == ApiDatasets[2]
ConcSheet == ConcData.Sheet1

\* what the search provider does with one search request
ConcOutcomes == Failed({"timeout"}) \cup Answered({<<"A","F">>})

\* a request that has not started: pc is the position in the code, i the
\* index of the company record in the loop of flatten_and_standardize,
\* tickers the values get_stock_ticker returned so far, ticker the value
\* determined for the current company, buf what json.dump has written to
\* the open file object, resolved the entries this request stored
NewThread ==
    [pc |-> "load_cache", i |-> 1, tickers |-> <<>>, ticker |-> None,
     buf |-> EmptyCache, resolved |-> EmptyCache,
     response |-> [status |-> 0, body |-> <<>>, error |-> ""]]

InitConc ==
    /\ ticker_file = NoFile(EmptyCache)
    /\ data_file = NoFile(<<>>)
    /\ ticker_cache = EmptyCache
    /\ now = 0
    /\ ticks = 0
    /\ calls = [n \in SampleNames |-> 0]
    /\ firstRet = [n \in SampleNames |-> NotCalled]
    /\ last = Idle
    /\ inp = NoInput
    /\ threads = [r \in Requests |-> NewThread]

\* open(cache_file, 'w') has run and nothing has been written yet
Truncated(d) ==
    [exists |-> TRUE, form |-> "not_json", fault |-> "ok", timestamp |-> 0,
     data |-> d]

\* the number of entries of a payload.  Every key of the model is two
\* characters long and every value is serialised in four ("AF" with its
\* quotes, null), so the payload with more entries is the longer text
PayloadSize(cache_type, data) ==
    IF cache_type = "ticker" THEN Cardinality(DOMAIN data)
    ELSE Len(data.processed_data)

\* the file object is closed and its buffer written at offset 0 of the
\* file as it is now: a longer text left by another writer since this
\* one's open keeps its tail, and the result is not JSON
flush_at_close(cache_type, file, data, t) ==
    IF file.form = "envelope"
        /\ PayloadSize(cache_type, data) < PayloadSize(cache_type, file.data)
    THEN Truncated(file.data)
    ELSE save_cache(data, cache_type, t, Truncated(file.data))

\* the loop of flatten_and_standardize moves to the next record, or to
\* the save of the main cache after the last one
next_company(th, ticker) ==
    [th EXCEPT !.tickers = Append(@, ticker),
               !.ticker = None,
               !.buf = EmptyCache,
               !.i = IF th.i = Len(ConcSheet) THEN @ ELSE @ + 1,
               !.pc = IF th.i = Len(ConcSheet) THEN "open_data"
                      ELSE "get_stock_ticker"]

\* lines 165-209 on the tickers the resolver returned
processed_with(tickers) ==
    pass2([i \in 1..Len(ConcSheet) |->
              build_company(ConcSheet[i].data, tickers[i])],
          ConcData.Campaigns).companies

\* utils.py 240-243 and app.py 9-13: the main-cache check; a hit answers
\* the request, a miss goes on to the fetch and the normalisation
CheckMainCache(r) ==
    /\ threads[r].pc = "load_cache"
    /\ \E l \in {load_cache("data", data_file, now)} :
         threads' = [threads EXCEPT ![r] =
            IF l.exc # ""
            THEN [@ EXCEPT !.pc = "done",
                    !.response = get_data([exc |-> l.exc,
                                           processed_data |-> <<>>])]
            ELSE IF l.found /\ "processed_data" \in DOMAIN l.data
            THEN [@ EXCEPT !.pc = "done",
                    !.response = get_data([exc |-> "",
                         processed_data |-> l.data.processed_data])]
            ELSE [@ EXCEPT !.pc = "get_stock_ticker"]]
    /\ UNCHANGED <<ticker_cache, ticker_file, data_file, now, ticks, calls,
                   firstRet, last, inp>>

\* utils.py 87-88: the look-up in the shared dict
CheckTickerCache(r) ==
    /\ threads[r].pc = "get_stock_ticker"
    /\ LET company_name == ConcSheet[threads[r].i].data["Company Name"] IN
       threads' = [threads EXCEPT ![r] =
            IF company_name \in DOMAIN ticker_cache
            THEN next_company(@, ticker_cache[company_name])
            ELSE [@ EXCEPT !.pc = "search_with_perplexity"]]
    /\ UNCHANGED <<ticker_cache, ticker_file, data_file, now, ticks, calls,
                   firstRet, last, inp>>

\* utils.py 91-147 and 153-155: the search and the choice of the value;
\* nothing shared is touched.  A failure returns None and stores nothing
Search(r, outcome) ==
    /\ threads[r].pc = "search_with_perplexity"
    /\ LET company_name == ConcSheet[threads[r].i].data["Company Name"] IN
       \E c \in {resolve_miss(company_name, EmptyCache, NoFile(EmptyCache),
                              now, outcome)} :
         threads' = [threads EXCEPT ![r] =
            IF c.exc # "" \/ c.saves = 0
            THEN next_company(@, None)
            ELSE [@ EXCEPT !.ticker = c.ret, !.pc = "store"]]
    /\ UNCHANGED <<ticker_cache, ticker_file, data_file, now, ticks, calls,
                   firstRet, last, inp>>

\* utils.py 108, 143, 148: ticker_cache[company_name] = value
Store(r) ==
    /\ threads[r].pc = "store"
    /\ LET company_name == ConcSheet[threads[r].i].data["Company Name"] IN
       /\ ticker_cache' = CachePut(ticker_cache, company_name,
                                   threads[r].ticker)
       /\ threads' = [threads EXCEPT ![r].pc = "open",
                                     ![r].resolved =
                                         CachePut(@, company_name,
                                                  threads[r].ticker)]
    /\ UNCHANGED <<ticker_file, data_file, now, ticks, calls, firstRet,
                   last, inp>>

\* cache_manager.py 49: open(cache_file, 'w') empties the file
OpenTickerFile(r) ==
    /\ threads[r].pc = "open"
    /\ ticker_file' = Truncated(ticker_file.data)
    /\ threads' = [threads EXCEPT ![r].pc = "json.dump"]
    /\ UNCHANGED <<ticker_cache, data_file, now, ticks, calls, firstRet,
                   last, inp>>

\* cache_manager.py 50: json.dump iterates over the shared dict and fills
\* the buffer of the file object
DumpTickerCache(r) ==
    /\ threads[r].pc = "json.dump"
    /\ threads' = [threads EXCEPT ![r].buf = ticker_cache,
                                  ![r].pc = "close"]
    /\ UNCHANGED <<ticker_cache, ticker_file, data_file, now, ticks, calls,
                   firstRet, last, inp>>

\* cache_manager.py 49-53: the with block ends and the buffer reaches the
\* file.  If a key was added to the dict while json.dump was iterating
\* (resized), the iteration raised RuntimeError, only a part of the text
\* is written, and the except clause swallows the exception
CloseTickerFile(r, resized) ==
    /\ threads[r].pc = "close"
    /\ resized => DOMAIN ticker_cache # DOMAIN threads[r].buf
    /\ ticker_file' =
           IF resized THEN Truncated(ticker_file.data)
           ELSE flush_at_close("ticker", ticker_file, threads[r].buf, now)
    /\ threads' = [threads EXCEPT ![r] = next_company(@, @.ticker)]
    /\ UNCHANGED <<ticker_cache, data_file, now, ticks, calls, firstRet,
                   last, inp>>

\* utils.py 254-258, cache_manager.py 49: the main cache file is opened
OpenDataFile(r) ==
    /\ threads[r].pc = "open_data"
    /\ data_file' = Truncated(data_file.data)
    /\ threads' = [threads EXCEPT ![r].pc = "close_data"]
    /\ UNCHANGED <<ticker_cache, ticker_file, now, ticks, calls, firstRet,
                   last, inp>>

\* cache_manager.py 50-51, utils.py 260, app.py 10: the request's own
\* lists are dumped, the file is closed, the response is sent
CloseDataFile(r) ==
    /\ threads[r].pc = "close_data"
    /\ \E processed_data \in {processed_with(threads[r].tickers)} :
         /\ data_file' = flush_at_close("data", data_file,
                             [raw_data |-> ("data" :> ConcData),
                              processed_data |-> processed_data], now)
         /\ threads' = [threads EXCEPT ![r].pc = "done",
                ![r].response = get_data([exc |-> "",
                                   processed_data |-> processed_data])]
    /\ UNCHANGED <<ticker_cache, ticker_file, now, ticks, calls, firstRet,
                   last, inp>>

\* one step of request r
RequestStep(r) ==
    \/ CheckMainCache(r)
    \/ CheckTickerCache(r)
    \/ \E outcome \in ConcOutcomes : Search(r, outcome)
    \/ Store(r)
    \/ OpenTickerFile(r)
    \/ DumpTickerCache(r)
    \/ \E resized \in BOOLEAN : CloseTickerFile(r, resized)
    \/ OpenDataFile(r)
    \/ CloseDataFile(r)

NextConc == \E r \in Requests : RequestStep(r)

SpecConc == InitConc /\ [][NextConc]_vars

\* the search provider answers every request, and not always alike
RaceOutcomes == Answered({<<"A","F">>, <<"n","u","l","l">>})

\* one step of request r when the provider always answers
RaceStep(r) ==
    \/ CheckMainCache(r)
    \/ CheckTickerCache(r)
    \/ \E outcome \in RaceOutcomes : Search(r, outcome)
    \/ Store(r)
    \/ OpenTickerFile(r)
    \/ DumpTickerCache(r)
    \/ \E resized \in BOOLEAN : CloseTickerFile(r, resized)
    \/ OpenDataFile(r)
    \/ CloseDataFile(r)

NextRace == \E r \in Requests : RaceStep(r)

SpecRace == InitConc /\ [][NextRace]_vars

\* ------------------------------------- the age of the persisted resolutions
\* the answers of the provider in this specification
AgeOutcomes == Failed({"timeout"}) \cup Answered({<<"A","F">>, <<"n","u","l","l">>})

\* inp holds, per company name, the time of the last save_cache call that
\* followed a resolution of that name
NeverPersisted == [n \in {} |-> 0]

InitAge ==
    /\ ticker_file = NoFile(EmptyCache)
    /\ data_file = NoFile(<<>>)
    /\ ticker_cache = EmptyCache
    /\ now = 0
    /\ ticks = 0
    /\ calls = [n \in SampleNames |-> 0]
    /\ firstRet = [n \in SampleNames |-> NotCalled]
    /\ last = Idle
    /\ inp = NeverPersisted
    /\ threads = NoThreads

\* one call get_stock_ticker(company_name), as Resolve, noting when the
\* resolution was persisted
ResolveAt(company_name, outcome) ==
    /\ company_name \in DOMAIN ticker_cache \/ calls[company_name] < MaxCalls
    /\ \E r \in {get_stock_ticker(company_name, ticker_cache, ticker_file,
                                   now, outcome)} :
           /\ ticker_cache' = r.cache
           /\ ticker_file' = r.file
           /\ calls' = [calls EXCEPT ![company_name] = @ + r.searches]
           /\ firstRet' = IF firstRet[company_name] = NotCalled
                          THEN [firstRet EXCEPT ![company_name] = r.ret]
                          ELSE firstRet
           /\ inp' = IF r.saves = 1
                     THEN [n \in (DOMAIN inp) \cup {company_name} |->
                              IF n = company_name THEN now ELSE inp[n]]
                     ELSE inp
           /\ last' = CallRecord(company_name, outcome,
                                 company_name \in DOMAIN ticker_cache, r)
    /\ UNCHANGED <<data_file, now, ticks, threads>>

NextAge ==
    \/ \E n \in SampleNames, o \in AgeOutcomes : ResolveAt(n, o)
    \/ Tick
    \/ Restart

SpecAge == InitAge /\ [][NextAge]_vars

\* ================================================================= claims

\* ---------------------------------------------------------------------- C1
AllRequiredPresent(data) ==
    \A i \in 1..Len(data.Sheet1) : missing_field(data.Sheet1[i].data) = ""

\* C1: for every raw dataset whose company records all carry the required
\* fields, flatten_and_standardize returns one output record per company
\* record, in input order, whatever the campaign records are
C1_OneRecordPerCompanyInOrder ==
    (last.op = "flatten_and_standardize" /\ AllRequiredPresent(inp)) =>
        /\ last.exc = ""
        /\ Len(last.companies) = Len(inp.Sheet1)
        /\ \A i \in 1..Len(inp.Sheet1) :
              /\ last.companies[i]["companyName"]
                     = inp.Sheet1[i].data["Company Name"]
              /\ last.companies[i]["companyId"]
                     = inp.Sheet1[i].data["Company name"]

\* ---------------------------------------------------------------------- C2
\* C2: in one process every company name causes at most one outbound
\* search call, and every get_stock_ticker call for a name returns the
\* value the first call for that name returned
C2_OneSearchSameValue ==
    /\ \A n \in SampleNames : calls[n] <= 1
    /\ last.op = "get_stock_ticker" => last.ret = firstRet[last.name]

\* ---------------------------------------------------------------------- C3
\* the call reached the provider and got nothing to parse
SearchFailed(call) ==
    /\ ~call.hit
    /\ call.answer = None \/ Len(strip(call.answer, SpaceChars)) = 0

WellFormed(data) ==
    /\ AllRequiredPresent(data)
    /\ \A k \in 1..Len(data.Campaigns) :
           "Companies" \in DOMAIN data.Campaigns[k].data

\* C3: whatever way the search call fails, get_stock_ticker returns None
\* and raises nothing, and a run of the pipeline on a well-formed snapshot
\* in which every search call fails answers 200 with every company listed
\* and stockTicker None
C3_SearchFailureAbsorbed ==
    last.op = "get_data" =>
        /\ \A i \in 1..Len(last.log) :
              /\ last.log[i].exc = ""
              /\ SearchFailed(last.log[i]) => last.log[i].ret = None
        /\ ( /\ last.upstream.kind = "ok"
             /\ last.upstream.snapshot # 0
             /\ InSeq("fetch_raw_data", last.events)
             /\ WellFormed(ApiDatasets[last.upstream.snapshot])
             /\ \A i \in 1..Len(last.log) : SearchFailed(last.log[i]) )
           => LET sheet == ApiDatasets[last.upstream.snapshot].Sheet1
                  body == last.response.body
              IN  /\ last.response.status = 200
                  /\ Len(last.log) = Len(sheet)
                  /\ Len(body) = Len(sheet)
                  /\ \A i \in 1..Len(sheet) :
                        /\ body[i]["companyName"] = sheet[i].data["Company Name"]
                        /\ body[i]["stockTicker"] = None

C3_Witness ==
    /\ last.op = "get_data"
    /\ last.response.status = 200
    /\ Len(last.log) = 2
    /\ \A i \in 1..Len(last.log) : SearchFailed(last.log[i])
    /\ Len(last.response.body) = 2
    /\ \A i \in 1..2 : last.response.body[i]["stockTicker"] = None

\* ---------------------------------------------------------------------- C4
\* C4: a cache-miss resolution whose search call fails or answers
\* malformed records the name as 'no ticker' in ticker_cache and persists
\* the map before returning None
C4_FailureCachedAndPersisted ==
    ( /\ last.op = "get_stock_ticker"
      /\ ~last.hit
      /\ last.kind \in FailureKinds \cup MalformedKinds )
    => /\ last.ret = None
       /\ last.name \in DOMAIN ticker_cache
       /\ ticker_cache[last.name] = None
       /\ last.saves = 1
       /\ ticker_file.exists
       /\ ticker_file.form = "envelope"
       /\ json_load("ticker", ticker_file.data) = ticker_cache

\* ---------------------------------------------------------------------- C5
\* C5: a get_stock_ticker call for a name that is a key of ticker_cache
\* (also one mapped to None) returns the stored value, issues no search
\* call, and changes neither ticker_cache nor the cache file, at any time
C5_CacheHitChangesNothing ==
    [][ (last'.op = "get_stock_ticker" /\ last'.name \in DOMAIN ticker_cache)
        => /\ last'.ret = ticker_cache[last'.name]
           /\ last'.searches = 0
           /\ last'.saves = 0
           /\ calls' = calls
           /\ ticker_cache' = ticker_cache
           /\ ticker_file' = ticker_file ]_vars

C5_Witness ==
    /\ last.op = "get_stock_ticker"
    /\ last.hit
    /\ last.ret = None
    /\ last.searches = 0
    /\ ticker_file.exists
    /\ now - ticker_file.timestamp > TickerCacheDays

\* ---------------------------------------------------------------------- C6
ValueOk(v) == v = None \/ is_valid_ticker(v)

\* the candidate of the resolution in `last` exists and fails the validator
CandidateRejected ==
    /\ last.kind = "ok"
    /\ LET content == strip(last.content, SpaceChars)
       IN  /\ strip(lower(content), {"."}) \notin NullLike
           /\ choose_ticker(last.name, content).exc = ""
           /\ ~is_valid_ticker(choose_ticker(last.name, content).ticker)

\* C6: whatever the provider answers, a cache-miss get_stock_ticker
\* returns, and writes into ticker_cache, only None or strings that
\* is_valid_ticker accepts; a candidate the validator rejects is cached as
\* None and None is returned
C6_OnlyValidTickers ==
    (last.op = "get_stock_ticker" /\ ~last.hit) =>
        /\ ValueOk(last.ret)
        /\ \A n \in DOMAIN ticker_cache : ValueOk(ticker_cache[n])
        /\ ticker_file.exists =>
               \A n \in DOMAIN ticker_file.data :
                   ValueOk(json_load("ticker", ticker_file.data)[n])
        /\ CandidateRejected =>
               /\ last.ret = None
               /\ last.name \in DOMAIN ticker_cache
               /\ ticker_cache[last.name] = None

C6_Witness ==
    /\ last.op = "get_stock_ticker"
    /\ ~last.hit
    /\ CandidateRejected
    /\ last.name \in DOMAIN ticker_cache
    /\ ticker_cache[last.name] = None

\* ---------------------------------------------------------------------- C7
Returned == last.op = "flatten_and_standardize" /\ last.exc = ""

\* the campaign names the company id among its trimmed tokens
Lists(campaign_data, id) ==
    /\ "Companies" \in DOMAIN campaign_data.data
    /\ InSeq(id, company_ids_of(campaign_data.data["Companies"]))

Listed(id) == \E k \in 1..Len(inp.Campaigns) : Lists(inp.Campaigns[k], id)

LastListing(id) ==
    CHOOSE k \in 1..Len(inp.Campaigns) :
        /\ Lists(inp.Campaigns[k], id)
        /\ \A j \in (k + 1)..Len(inp.Campaigns) : ~Lists(inp.Campaigns[j], id)

\* no earlier output record has the companyId of record i
FirstWithId(i) ==
    \A j \in 1..(i - 1) :
        last.companies[j]["companyId"] # last.companies[i]["companyId"]

\* every campaign key of the record holds what the last campaign listing
\* its companyId writes
FromLastCampaign(rec) ==
    /\ CampaignKeys \subseteq DOMAIN rec
    /\ LET written ==
               campaign_fields(inp.Campaigns[LastListing(rec["companyId"])])
       IN  \A key \in CampaignKeys : rec[key] = written[key]

\* C7 as stated: every company whose companyId a campaign lists has all
\* its campaign fields from the last campaign that lists it
C7_LastCampaignWins_AsStated ==
    Returned =>
        \A i \in 1..Len(last.companies) :
            Listed(last.companies[i]["companyId"])
                => FromLastCampaign(last.companies[i])

\* C7 amended: every company whose companyId a campaign lists, and which
\* is the first record with that companyId, has all its campaign fields
\* from the last campaign that lists it
C7_LastCampaignWins ==
    Returned =>
        \A i \in 1..Len(last.companies) :
            (FirstWithId(i) /\ Listed(last.companies[i]["companyId"]))
                => FromLastCampaign(last.companies[i])

C7_Witness ==
    /\ Returned
    /\ \E i \in 1..Len(last.companies) :
           /\ FirstWithId(i)
           /\ \E k1, k2 \in 1..Len(inp.Campaigns) :
                 /\ k1 < k2
                 /\ Lists(inp.Campaigns[k1], last.companies[i]["companyId"])
                 /\ Lists(inp.Campaigns[k2], last.companies[i]["companyId"])
                 /\ campaign_fields(inp.Campaigns[k1])
                        # campaign_fields(inp.Campaigns[k2])
           /\ FromLastCampaign(last.companies[i])

\* ---------------------------------------------------------------------- C8
\* a sub-field the campaign lacks shows as '' (as [] for campaignLinks)
DefaultsFilled(rec, campaign_data) ==
    /\ \A key \in DOMAIN UpstreamField :
           UpstreamField[key] \notin DOMAIN campaign_data.data
               => rec[key] = <<>>
    /\ "Campaign link" \notin DOMAIN campaign_data.data
           => rec["campaignLinks"] = PyList(<<>>)

AllTenPresent(rec) ==
    /\ CampaignKeys \subseteq DOMAIN rec
    /\ DefaultsFilled(rec, inp.Campaigns[LastListing(rec["companyId"])])

NonePresent(rec) == (DOMAIN rec) \cap CampaignKeys = {}

\* C8 as stated: an output record has none of the ten campaign keys when
\* no campaign token equals its companyId, and all ten when one does
C8_AllOrNothing_AsStated ==
    Returned =>
        \A i \in 1..Len(last.companies) :
            IF Listed(last.companies[i]["companyId"])
            THEN AllTenPresent(last.companies[i])
            ELSE NonePresent(last.companies[i])

\* C8 amended: an output record has all ten campaign keys when a campaign
\* token equals its companyId and no earlier record has that companyId,
\* and none of the ten otherwise
C8_AllOrNothing ==
    Returned =>
        \A i \in 1..Len(last.companies) :
            IF Listed(last.companies[i]["companyId"]) /\ FirstWithId(i)
            THEN AllTenPresent(last.companies[i])
            ELSE NonePresent(last.companies[i])

C8_Witness ==
    /\ Returned
    /\ \E i, j \in 1..Len(last.companies) :
           /\ Listed(last.companies[i]["companyId"])
           /\ FirstWithId(i)
           /\ "Description" \notin DOMAIN
                  inp.Campaigns[LastListing(last.companies[i]["companyId"])].data
           /\ AllTenPresent(last.companies[i])
           /\ last.companies[i]["campaignDescription"] = <<>>
           /\ ~Listed(last.companies[j]["companyId"])
           /\ NonePresent(last.companies[j])

\* ---------------------------------------------------------------------- C9
HasCompanies(campaign_data) == "Companies" \in DOMAIN campaign_data.data

\* the output records without their campaign keys: the list pass 1 built
RECURSIVE BeforeMerge(_)
BeforeMerge(companies) ==
    IF Len(companies) = 0 THEN <<>>
    ELSE <<[k \in (DOMAIN Head(companies)) \ CampaignKeys |->
               Head(companies)[k]]>> \o BeforeMerge(Tail(companies))

\* the list returned is the one the merge gives with only the campaigns
\* that satisfy Counts
SameAsWithOnly(Counts(_)) ==
    last.companies
        = pass2(BeforeMerge(last.companies),
                SelectSeq(inp.Campaigns, Counts)).companies

\* C9: a campaign record without a Companies field is skipped: the call
\* raises nothing, returns every company, and the result is the one the
\* other campaigns give
C9_MissingCompaniesSkipped ==
    ( /\ last.op = "flatten_and_standardize"
      /\ AllRequiredPresent(inp)
      /\ \E k \in 1..Len(inp.Campaigns) : ~HasCompanies(inp.Campaigns[k]) )
    => /\ last.exc = ""
       /\ Len(last.companies) = Len(inp.Sheet1)
       /\ SameAsWithOnly(HasCompanies)

\* --------------------------------------------------------------------- C10
Blank(campaign_data) ==
    /\ HasCompanies(campaign_data)
    /\ Len(strip(campaign_data.data["Companies"], SpaceChars)) = 0

NotBlank(campaign_data) == ~Blank(campaign_data)

\* C10: a campaign whose Companies field is empty or whitespace changes no
\* output record and raises nothing, whatever the companyId values are
C10_BlankCompaniesChangeNothing ==
    ( /\ last.op = "flatten_and_standardize"
      /\ WellFormed(inp)
      /\ \E k \in 1..Len(inp.Campaigns) : Blank(inp.Campaigns[k]) )
    => /\ last.exc = ""
       /\ SameAsWithOnly(NotBlank)

\* --------------------------------------------------------------------- C11
\* the main cache as the request about to run finds it
MainCacheHit ==
    /\ load_cache("data", data_file, now).found
    /\ "processed_data" \in DOMAIN load_cache("data", data_file, now).data

CachedProcessedData == load_cache("data", data_file, now).data.processed_data

AllFourInOrder ==
    <<"load_cache", "fetch_raw_data", "flatten_and_standardize", "save_cache">>

\* the run of last' returned what the data file now holds, stamped now
WroteWhatItReturned ==
    /\ data_file'.exists
    /\ data_file'.form = "envelope"
    /\ data_file'.timestamp = now
    /\ json_load("data", data_file'.data).processed_data
           = last'.response.body

HitDoesNothing ==
    /\ last'.events = <<"load_cache">>
    /\ last'.response.status = 200
    /\ last'.response.body = CachedProcessedData
    /\ data_file' = data_file

\* C11 as stated: on a main-cache hit no fetch, no normalization and no
\* cache write happen and the cached processed data is returned; on a
\* miss exactly one fetch, one normalization and one cache write happen,
\* in that order, and the data returned is the data written
C11_HitOrFullMiss_AsStated ==
    [][ last'.op = "get_data" =>
            IF MainCacheHit THEN HitDoesNothing
            ELSE /\ last'.events = AllFourInOrder
                 /\ WroteWhatItReturned ]_vars

\* C11 amended: a hit as above; on a miss exactly one fetch comes first,
\* exactly one normalization follows if the fetch raised nothing and the
\* decoded snapshot has a 'data' key, and exactly one cache write follows
\* if the normalization raised nothing, the data returned being the data
\* written; when a step raises, the later steps do not run, the run
\* fails and leaves the cache file as it was
C11_HitOrMissInOrder ==
    [][ last'.op = "get_data" =>
            IF MainCacheHit THEN HitDoesNothing
            ELSE /\ \E k \in 2..4 : last'.events = SubSeq(AllFourInOrder, 1, k)
                 /\ (last'.upstream.kind = "ok" /\ last'.upstream.snapshot # 0)
                        => Len(last'.events) >= 3
                 /\ IF Len(last'.events) = 4
                    THEN /\ last'.response.status = 200
                         /\ WroteWhatItReturned
                    ELSE /\ last'.response.status = 500
                         /\ data_file' = data_file ]_vars

C11_Witness ==
    /\ last.op = "get_data"
    /\ last.events = <<"load_cache">>
    /\ last.response.status = 200
    /\ Len(last.response.body) = 2
    /\ data_file.exists
    /\ now > data_file.timestamp

Loadable(cache_type, file) ==
    /\ file.exists
    /\ file.form = "envelope"
    /\ now - file.timestamp <= CacheDuration(cache_type)

\* what a save_cache call leaves of `file`: the new envelope, the file
\* untouched when open is refused, unparsable text when the write fails
AfterSave(file, file_after) ==
    /\ file.fault = "ok" =>
           /\ file_after.exists /\ file_after.form = "envelope"
           /\ file_after.timestamp = now
    /\ file.fault = "denied" => file_after = file
    /\ file.fault = "full" =>
           file_after = [file EXCEPT !.exists = TRUE, !.form = "not_json"]

\* C13: load_cache and save_cache never raise: load_cache gives absent for
\* a missing, unparsable, incomplete or expired envelope, save_cache returns
\* when the write fails, and the process start, the resolver and the
\* request go on as on a cache miss or a dropped write
C13_CacheFailuresDegrade ==
    [][ /\ last'.op = "restart" =>
              /\ last'.exc = ""
              /\ last'.found <=> Loadable("ticker", ticker_file)
              /\ ticker_cache' = IF Loadable("ticker", ticker_file)
                                 THEN json_load("ticker", ticker_file.data)
                                 ELSE EmptyCache
        /\ last'.op = "get_data" =>
              /\ last'.response.status = 200
              /\ Len(last'.response.body) = 1
              /\ IF Loadable("data", data_file)
                 THEN last'.events = <<"load_cache">> /\ data_file' = data_file
                 ELSE /\ last'.events = AllFourInOrder
                      /\ AfterSave(data_file, data_file')
        /\ (last'.op = "get_stock_ticker" /\ last'.saves = 1) =>
              /\ last'.exc = ""
              /\ last'.name \in DOMAIN ticker_cache'
              /\ ticker_cache'[last'.name] = last'.ret
              /\ AfterSave(ticker_file, ticker_file') ]_vars

\* a request served from a fresh fetch although the data file is
\* unparsable and cannot be rewritten
C13_Witness ==
    /\ last.op = "get_data"
    /\ last.response.status = 200
    /\ last.events = AllFourInOrder
    /\ data_file.exists
    /\ data_file.form = "not_json"
    /\ data_file.fault = "denied"

\* --------------------------------------------------------------------- C14
\* the exceptions the pipeline raises in the request specification
PipelineErrors ==
    FetchFailures \cup {KeyError("data"), KeyError("Companies")}
        \cup {KeyError(RequiredFields[i]) : i \in 1..Len(RequiredFields)}
        \cup {KeyError("repr")}

\* C14: every request ends either in status 200 with the processed company
\* list, or in status 500 with an error message and no list; every
\* exception of the pipeline gives the second
C14_ListOrError ==
    last.op = "get_data" =>
        /\ \/ /\ last.response.status = 200
              /\ last.response.error = ""
              /\ data_file.exists
              /\ last.response.body
                     = json_load("data", data_file.data).processed_data
              /\ Len(last.response.body)
                     = Len(json_load("data", data_file.data)
                               .raw_data["data"].Sheet1)
           \/ /\ last.response.status = 500
              /\ last.response.error \in PipelineErrors
              /\ last.response.body = <<>>
        /\ (Len(last.events) > 1 /\ last.upstream.kind \in FetchFailures)
               => /\ last.response.status = 500
                  /\ last.response.error = last.upstream.kind
        /\ (Len(last.events) > 1 /\ last.upstream.kind = "ok"
                /\ last.upstream.snapshot = 0)
               => /\ last.response.status = 500
                  /\ last.response.error = KeyError("data")
        /\ (Len(last.events) > 1 /\ last.upstream.kind = "ok"
                /\ last.upstream.snapshot # 0
                /\ ~WellFormed(ApiDatasets[last.upstream.snapshot]))
               => last.response.status = 500

C14_Witness ==
    /\ last.op = "get_data"
    /\ last.response.status = 500
    /\ last.response.error = "dataSnapshot URL not found in response"
    /\ last.response.body = <<>>
    /\ data_file.exists

\* --------------------------------------------------------------------- C15
\* the run in `l` normalised a snapshot with a company record that lacks
\* a required field
HitMissingField(l) ==
    /\ l.op = "get_data"
    /\ InSeq("flatten_and_standardize", l.events)
    /\ ~AllRequiredPresent(ApiDatasets[l.upstream.snapshot])

FirstMissing(data) ==
    missing_field(
        data.Sheet1[CHOOSE i \in 1..Len(data.Sheet1) :
            /\ missing_field(data.Sheet1[i].data) # ""
            /\ \A j \in 1..(i - 1) : missing_field(data.Sheet1[j].data) = ""].data)

\* C15: when a company record lacks a required field the normaliser
\* raises, the request ends in status 500 naming the field, the main data
\* cache is not written by that run, and the next request fetches again
C15_MissingFieldFailsRun ==
    [][ /\ HitMissingField(last') =>
              /\ last'.response.status = 500
              /\ last'.response.error
                     = KeyError(FirstMissing(ApiDatasets[last'.upstream.snapshot]))
              /\ last'.response.body = <<>>
              /\ last'.events = SubSeq(AllFourInOrder, 1, 3)
              /\ data_file' = data_file
        /\ (HitMissingField(last) /\ last'.op = "get_data") =>
              /\ Len(last'.events) > 1
              /\ last'.events[2] = "fetch_raw_data" ]_vars

C15_Witness ==
    /\ HitMissingField(last)
    /\ last.upstream.snapshot = 8
    /\ last.response.status = 500
    /\ last.response.error = KeyError("repr")
    /\ ~data_file.exists

\* --------------------------------------------------------------------- C18
\* one of the five shapes a ticker may have
HasTickerShape(t) ==
    \/ Letters(t, 1, 5)
    \/ Len(t) > 1 /\ Letters(SubSeq(t, 1, Len(t) - 1), 4, 5) /\ t[Len(t)] = "Y"
    \/ Len(t) > 1 /\ Letters(SubSeq(t, 1, Len(t) - 1), 2, 6) /\ t[Len(t)] = "F"
    \/ Letters(t, 4, 6)
    \/ LettersDigits(t)
    \/ \E p \in 2..(Len(t) - 1) :
          /\ t[p] = "."
          /\ Letters(SubSeq(t, 1, p - 1), 4, 6) \/ LettersDigits(SubSeq(t, 1, p - 1))
          /\ IsExchangeSuffix(SubSeq(t, p + 1, Len(t)))

\* C18: is_valid_ticker(s) is true exactly when s is a non-empty string of
\* at most 10 characters that has one of the five ticker shapes
C18_ValidExactlyForShapes ==
    last.op = "is_valid_ticker" =>
        (last.ret <=> /\ inp # None
                      /\ Len(inp) \in 1..10
                      /\ HasTickerShape(inp))

\* --------------------------------------------------------------------- C19
\* the resolution in `last` had a well-formed answer
Answer == strip(last.content, SpaceChars)

WellFormedAnswer == last.op = "get_stock_ticker" /\ ~last.hit /\ last.kind = "ok"

\* the matches of the five pattern classes, in class order, that equal no
\* whitespace-delimited word of the uppercased company name
Survivors(company_name, content) ==
    LET company_words == split_ws(upper(company_name))
        kept(k) == SelectSeq(findall(k, content),
                             LAMBDA m : ~InSeq(m, company_words))
    IN  kept(1) \o kept(2) \o kept(3) \o kept(4) \o kept(5)

\* what validating, caching and returning the candidate gives
ResultOf(candidate) == IF is_valid_ticker(candidate) THEN candidate ELSE None

\* C19: for an answer that is not null-like, the candidate is the first of
\* the longest pattern matches in the content that equal no word of the
\* uppercased company name, and that candidate decides the result
C19_LongestSurvivorChosen ==
    ( /\ WellFormedAnswer
      /\ strip(lower(Answer), {"."}) \notin NullLike
      /\ Len(Survivors(last.name, Answer)) > 0 )
    => /\ choose_ticker(last.name, Answer).ticker
              = max_by_len(Survivors(last.name, Answer))
       /\ last.ret = ResultOf(max_by_len(Survivors(last.name, Answer)))

\* --------------------------------------------------------------------- C20
\* the content equals null, none, - or n/a after dropping trailing
\* periods and ignoring case
NullLikeTrailing(content) == rstrip(lower(content), {"."}) \in NullLike

\* C20: a well-formed answer is classified as 'no ticker' exactly when its
\* trimmed content, less trailing periods and ignoring case, is one of
\* null, none, -, n/a: then None is returned and the name is stored with
\* None; every other answer goes through candidate selection
C20_NullLikeExactly ==
    WellFormedAnswer =>
        IF NullLikeTrailing(Answer)
        THEN /\ last.ret = None
             /\ last.name \in DOMAIN ticker_cache
             /\ ticker_cache[last.name] = None
             /\ last.saves = 1
        ELSE LET ch == choose_ticker(last.name, Answer)
             IN  IF ch.exc # ""
                 THEN last.ret = None /\ last.name \notin DOMAIN ticker_cache
                 ELSE /\ last.ret = ResultOf(ch.ticker)
                      /\ last.name \in DOMAIN ticker_cache
                      /\ ticker_cache[last.name] = last.ret


\* ---- C16
\* every request has answered
AllDone == \A r \in Requests : threads[r].pc = "done"

\* two requests each stored the entry of one name, the two names differ,
\* and no other request stored anything
ResolvedDifferentNames ==
    \E r1, r2 \in Requests :
        /\ DOMAIN threads[r1].resolved = {<<"A","F">>}
        /\ DOMAIN threads[r2].resolved = {<<"a","f">>}
        /\ \A r \in Requests \ {r1, r2} : threads[r].resolved = EmptyCache

\* the entries the requests stored, each with the value resolved for it
ResolvedEntries ==
    [n \in UNION {DOMAIN threads[r].resolved : r \in Requests} |->
        threads[CHOOSE r \in Requests : n \in DOMAIN threads[r].resolved]
            .resolved[n]]

\* C16: when two requests resolve different uncached company names in
\* parallel, then after both have completed the in-memory cache and the
\* persisted ticker store each hold both names with the values resolved
\* for them, whatever the interleaving of the map updates and file writes.
C16_BothEntriesKept ==
    (AllDone /\ ResolvedDifferentNames) =>
        /\ ticker_cache = ResolvedEntries
        /\ ticker_file.form = "envelope"
        /\ json_load("ticker", ticker_file.data) = ResolvedEntries

\* ---- C17
\* one record per company served, in the order served
FullList(body) ==
    /\ Len(body) = Len(ConcSheet)
    /\ \A i \in 1..Len(ConcSheet) :
          /\ body[i]["companyName"] = ConcSheet[i].data["Company Name"]
          /\ body[i]["companyId"] = ConcSheet[i].data["Company name"]
          /\ body[i]["stockTicker"] \in {None, <<"A","F">>}
          /\ CampaignKeys \subseteq DOMAIN body[i]

\* C17: with the upstream serving its snapshot, every request issued in
\* parallel that has completed has answered with status 200 and the full
\* company list, under every interleaving of the main-cache checks,
\* ticker resolutions and cache file reads and writes of the requests; no
\* request waits for another one, a step of it is possible at every
\* position before the answer.
C17_AllRequestsSucceed ==
    \A r \in Requests :
        /\ threads[r].pc \in
               {"load_cache", "get_stock_ticker", "search_with_perplexity",
                "store", "open", "json.dump", "close", "open_data",
                "close_data", "done"}
        /\ threads[r].pc = "done" =>
               /\ threads[r].response.status = 200
               /\ threads[r].response.error = ""
               /\ FullList(threads[r].response.body)

\* both requests ran the whole pipeline side by side, a write of the
\* ticker store was lost in the race, and both answered 200
C17_Witness ==
    /\ AllDone
    /\ \A r \in Requests :
          /\ Len(threads[r].tickers) = Len(ConcSheet)
          /\ threads[r].response.status = 200
          /\ FullList(threads[r].response.body)
    /\ ticker_file.form = "not_json"

\* ---- C21
\* the resolution recorded in `call` reached a value: the answer is
\* null-like, or a candidate was found for the validator to judge
Determined(call) ==
    /\ call.kind = "ok"
    /\ LET content == strip(call.content, SpaceChars)
       IN  \/ strip(lower(content), {"."}) \in NullLike
           \/ choose_ticker(call.name, content).exc = ""

\* C21: every cache-miss resolution that determines a value (a valid
\* ticker, a null-like answer, a candidate the validator rejects) sets
\* the entry of the name in ticker_cache to the value it returns, leaves
\* the other entries alone, and calls save_cache exactly once before
\* returning, with the whole map under the ticker cache name: the file
\* holds the map as it is after the call, stamped with the current time.
C21_WriteThrough ==
    [][ ( /\ last'.op = "get_stock_ticker"
          /\ ~last'.hit
          /\ Determined(last') )
        => /\ DOMAIN ticker_cache' = DOMAIN ticker_cache \cup {last'.name}
           /\ ticker_cache'[last'.name] = last'.ret
           /\ \A n \in DOMAIN ticker_cache : ticker_cache'[n] = ticker_cache[n]
           /\ last'.saves = 1
           /\ ticker_file' = save_cache(ticker_cache', "ticker", now,
                                        ticker_file)
           /\ json_load("ticker", ticker_file'.data) = ticker_cache'
           /\ ticker_file'.timestamp = now ]_vars

\* a second name was resolved to a ticker and the file holds both entries
C21_Witness ==
    /\ last.op = "get_stock_ticker"
    /\ ~last.hit
    /\ Determined(last)
    /\ last.ret # None
    /\ last.saves = 1
    /\ Cardinality(DOMAIN ticker_cache) = 2
    /\ ticker_file.form = "envelope"
    /\ json_load("ticker", ticker_file.data) = ticker_cache
    /\ ticker_file.timestamp = now
    /\ now > 0

\* ---- C22
\* C22: the main data cache and the ticker cache are independent: a
\* save_cache to one, failed or not, leaves what load_cache returns for
\* the other as it was; and an envelope older than 1 day but not older
\* than 365 days is absent when loaded as the main data cache and present
\* when loaded as the ticker cache.
C22_CachesIndependent ==
    [][ /\ last'.op = "save_cache" =>
              IF last'.cache_type = "ticker"
              THEN load_cache("data", data_file', now')
                       = load_cache("data", data_file, now)
              ELSE load_cache("ticker", ticker_file', now')
                       = load_cache("ticker", ticker_file, now)
        /\ ( /\ last'.op = "load_cache"
             /\ last'.stored
             /\ last'.age > DataCacheDays
             /\ last'.age <= TickerCacheDays )
           => IF last'.cache_type = "ticker"
              THEN last'.found /\ last'.data = inp["ticker"]
              ELSE ~last'.found ]_vars

\* both envelopes were written at the same time, 365 days ago, and the
\* ticker cache has just been loaded from its file
C22_Witness ==
    /\ last.op = "load_cache"
    /\ last.cache_type = "ticker"
    /\ last.found
    /\ last.data = (<<"A","F">> :> <<"A","F">>)
    /\ ticker_file.form = "envelope"
    /\ data_file.form = "envelope"
    /\ data_file.timestamp = ticker_file.timestamp
    /\ now - ticker_file.timestamp = TickerCacheDays
    /\ ~load_cache("data", data_file, now).found

\* ---- C23
\* C23: when several output records share a companyId, a campaign token
\* equal to that id updates only the record earliest in the output
\* sequence, which gets its campaign fields from the last campaign listing
\* the id; the later records with that id have no campaign field at all.
C23_OnlyEarliestOfDuplicates ==
    Returned =>
        \A i, j \in 1..Len(last.companies) :
            ( /\ i < j
              /\ last.companies[i]["companyId"] = last.companies[j]["companyId"] )
            => /\ NonePresent(last.companies[j])
               /\ ( FirstWithId(i) /\ Listed(last.companies[i]["companyId"]) )
                      => FromLastCampaign(last.companies[i])

\* two records with the id a campaign lists: the first was updated, the
\* second was not
C23_Witness ==
    /\ Returned
    /\ Len(last.companies) = 2
    /\ last.companies[1]["companyId"] = last.companies[2]["companyId"]
    /\ last.companies[1]["companyName"] # last.companies[2]["companyName"]
    /\ Listed(last.companies[2]["companyId"])
    /\ FromLastCampaign(last.companies[1])
    /\ NonePresent(last.companies[2])

\* ---- C24
\* the campaign lists several comma-separated ids
Several(campaign_data) ==
    /\ HasCompanies(campaign_data)
    /\ Len(company_ids_of(campaign_data.data["Companies"])) >= 2

\* the token equals the companyId of an output record
Known(token) ==
    \E i \in 1..Len(last.companies) : last.companies[i]["companyId"] = token

\* the merge of the campaigns with the tokens that equal no companyId
\* left out
RECURSIVE MergeKnown(_, _)
MergeKnown(companies, campaigns) ==
    IF Len(campaigns) = 0 THEN companies
    ELSE MergeKnown(
             apply_tokens(companies, Head(campaigns),
                 SelectSeq(company_ids_of(Head(campaigns).data["Companies"]),
                           Known)),
             Tail(campaigns))

\* some campaign has a token that equals no companyId
SomeUnknownToken ==
    \E k \in 1..Len(inp.Campaigns) :
        LET ids == company_ids_of(inp.Campaigns[k].data["Companies"])
        IN  \E t \in 1..Len(ids) : ~Known(ids[t])

\* tokens that equal no companyId raise nothing and change no record
UnknownTokensIgnored ==
    ( /\ last.op = "flatten_and_standardize"
      /\ WellFormed(inp)
      /\ SomeUnknownToken )
    => /\ last.exc = ""
       /\ last.companies
              = MergeKnown(BeforeMerge(last.companies), inp.Campaigns)

\* C24 as stated: a campaign listing several comma-separated ids, each
\* possibly surrounded by whitespace, writes its campaign fields to every
\* company whose companyId equals a trimmed token, and a token that
\* equals no companyId raises no error and changes no record
C24_EveryListedCompany_AsStated ==
    /\ Returned =>
          \A k \in 1..Len(inp.Campaigns) :
              \A i \in 1..Len(last.companies) :
                  ( /\ Several(inp.Campaigns[k])
                    /\ Lists(inp.Campaigns[k], last.companies[i]["companyId"]) )
                  => FromLastCampaign(last.companies[i])
    /\ UnknownTokensIgnored

\* C24 amended: a campaign listing several comma-separated ids, each
\* possibly surrounded by whitespace, writes its campaign fields, for
\* every trimmed token, to the first company whose companyId equals the
\* token, and a token that equals no companyId raises no error and
\* changes no record
C24_EveryListedCompany ==
    /\ Returned =>
          \A k \in 1..Len(inp.Campaigns) :
              \A i \in 1..Len(last.companies) :
                  ( /\ FirstWithId(i)
                    /\ Several(inp.Campaigns[k])
                    /\ Lists(inp.Campaigns[k], last.companies[i]["companyId"]) )
                  => FromLastCampaign(last.companies[i])
    /\ UnknownTokensIgnored

\* ' a , b,c' updated the companies a and b, and c was ignored
C24_Witness ==
    /\ Returned
    /\ Len(last.companies) = 2
    /\ last.companies[1]["companyId"] = <<"b">>
    /\ last.companies[2]["companyId"] = <<"a">>
    /\ Len(inp.Campaigns) = 1
    /\ Several(inp.Campaigns[1])
    /\ SomeUnknownToken
    /\ FromLastCampaign(last.companies[1])
    /\ FromLastCampaign(last.companies[2])
    /\ last.companies[1]["campaignId"] = <<"campaign-3">>

\* ---- C25
\* the value of the k-th source field of a company record, '' when the
\* record lacks the field
SourceValue(cd, k) ==
    LET field == <<"Source", "Second source", "Information source 3",
                   "Information source 4">>[k]
    IN  IF field \in DOMAIN cd THEN cd[field] ELSE <<>>

NonEmpty(value) == value # <<>>

\* C25: the sources list of every output record holds exactly the
\* non-empty values of the fields Source, Second source, Information
\* source 3, Information source 4 of its company record, in that order;
\* absent and empty fields are skipped, and the list has 0 to 4 entries.
C25_SourcesInFixedOrder ==
    Returned =>
        \A i \in 1..Len(last.companies) :
            LET cd == inp.Sheet1[i].data
                sources == last.companies[i]["sources"].items
            IN  /\ Len(sources) \in 0..4
                /\ sources = SelectSeq([k \in 1..4 |-> SourceValue(cd, k)],
                                       NonEmpty)

\* one record with its four sources, one whose second source is empty and
\* whose third is absent
C25_Witness ==
    /\ Returned
    /\ Len(last.companies) = 2
    /\ last.companies[1]["sources"].items
           = << <<"Source C">>, <<"Source B">>, <<"Source A">>, <<"Source D">> >>
    /\ last.companies[2]["sources"].items = << <<"Source 1">>, <<"Source 4">> >>
    /\ "Second source" \in DOMAIN inp.Sheet1[2].data
    /\ "Information source 3" \notin DOMAIN inp.Sheet1[2].data

\* ---- C26
\* the first whitespace-delimited token of the content, '' when the
\* content has none
FirstToken(content) ==
    IF Len(split_ws(content)) > 0 THEN split_ws(content)[1] ELSE <<>>

\* C26: when no pattern candidate survives for a well-formed, not
\* null-like answer, the candidate is the first whitespace-delimited token
\* of the content: the token is cached and returned when the validator
\* accepts it, and otherwise None is cached and returned, for every
\* content, the empty string included.
C26_FallbackToFirstToken ==
    ( /\ WellFormedAnswer
      /\ strip(lower(Answer), {"."}) \notin NullLike
      /\ Len(Survivors(last.name, Answer)) = 0 )
    => /\ last.ret = ResultOf(FirstToken(Answer))
       /\ last.name \in DOMAIN ticker_cache
       /\ ticker_cache[last.name] = last.ret
       /\ last.saves = 1

\* ---- C27
\* C27: once a company name is a key of ticker_cache, the key is never
\* removed and its value never changes while the process runs, whatever
\* the interleaving of the resolver calls of parallel requests, two
\* requests resolving the same uncached name at the same time included.
C27_EntriesNeverChange ==
    [][ \A n \in DOMAIN ticker_cache :
            /\ n \in DOMAIN ticker_cache'
            /\ ticker_cache'[n] = ticker_cache[n] ]_vars

\* --------------------------------------------------------------------- C28
\* C28: a save_cache call that fails leaves the envelope stored under that
\* cache name intact: load_cache after the failed save returns what it
\* returned before it
C28_FailedSaveKeepsEnvelope ==
    [][ (last'.op = "save_cache" /\ last'.failed) =>
            /\ last'.cache_type = "ticker" =>
                   load_cache("ticker", ticker_file', now')
                       = load_cache("ticker", ticker_file, now)
            /\ last'.cache_type = "data" =>
                   load_cache("data", data_file', now')
                       = load_cache("data", data_file, now) ]_vars

\* --------------------------------------------------------------------- C29
\* some name of the ticker file was persisted within the last 365 days
PersistedLately ==
    \E m \in DOMAIN ticker_file.data :
        m \in DOMAIN inp /\ now - inp[m] <= TickerCacheDays

\* C29: every persist of the ticker cache rewrites the whole map under one
\* new timestamp, and a process start tests that one timestamp: when any
\* name was persisted within the last 365 days, every entry of the file is
\* loaded, also one resolved more than 365 days earlier
C29_AgeCountsFromLastPersist ==
    [][ /\ (last'.op = "get_stock_ticker" /\ last'.saves = 1) =>
              /\ ticker_file'.timestamp = now
              /\ ticker_file'.data = json_dump("ticker", ticker_cache')
              /\ DOMAIN ticker_cache \subseteq DOMAIN ticker_file'.data
        /\ (last'.op = "restart" /\ PersistedLately) =>
              /\ last'.found
              /\ ticker_cache' = json_load("ticker", ticker_file.data) ]_vars

\* a process start that loaded an entry resolved more than 365 days earlier
C29_Witness ==
    /\ last.op = "restart"
    /\ last.found
    /\ \E n \in DOMAIN ticker_cache :
           n \in DOMAIN inp /\ now - inp[n] > TickerCacheDays

\* --------------------------------------------------------------------- C30
\* the calls of the second parsing step in the resolution in `last`
ParsingCalls ==
    LET made == llm_calls(last.searches)
    IN  {i \in 1..Len(made) : made[i] = "parse_ticker_with_openrouter"}

\* C30: on a cache miss with a well-formed search answer, get_stock_ticker
\* hands the answer text to the second parsing step
\* (parse_ticker_with_openrouter) exactly once
C30_SecondParsingStep ==
    WellFormedAnswer => Cardinality(ParsingCalls) = 1

====
